---- MODULE Spec2Model ----
(***************************************************************************)
(* A model of the chess Board of Interactive-Chess (src/_board/board.py,   *)
(* src/_board/tile.py) and of the history navigation of its view           *)
(* (src/_gui/view.py).  A square is <<file, rank>>; grid[<<file, rank>>]   *)
(* is the source's grid[rank][file].piece_here.                            *)
(*                                                                         *)
(* The piece classes (_pieces/*.py) are not part of the given sources:     *)
(* their move generation and relocation hook are modelled from the         *)
(* specification (sections 3, 4.2, 4.4 and 8).                             *)
(*                                                                         *)
(* Board.remove_check_indicators and Board.highlight_king_in_check call    *)
(* Tile.clear_check and Tile.set_check, which src/_board/tile.py does not  *)
(* define.  The variable tile_check_api says how those two calls behave:   *)
(* FALSE is the Tile of src/_board/tile.py (the call raises                *)
(* AttributeError, specification Spec); TRUE is a Tile with the check      *)
(* marker that specification section 4.4 describes (specification          *)
(* SpecTile).                                                              *)
(***************************************************************************)
EXTENDS Integers, Sequences, FiniteSets, TLC

VARIABLES
    grid,                   \* Board.grid: square -> piece or NonePiece
    selected_piece,         \* Board.selected_piece
    checking_for_checks,    \* Board.checking_for_checks
    en_passant_target,      \* Board.en_passant_target
    move_history,           \* Board.move_history
    current_index,          \* Board.current_index
    material_differential,  \* Board.material_differential
    checkmate,              \* Board.checkmate
    stalemate,              \* Board.stalemate
    mate_color,             \* Board.mate_color
    resigned,               \* Board.resigned
    check,                  \* squares whose Tile carries the check marker
    highlighted,            \* squares whose Tile is highlighted
    tile_check_api,         \* whether Tile has clear_check / set_check
    turn,                   \* the side whose move the caller makes next
    line,                   \* the game of Book the callers are playing
    ply,                    \* how many moves of that game were applied
    last_op                 \* the last Board operation invoked and its outcome

vars == <<grid, selected_piece, checking_for_checks, en_passant_target,
          move_history, current_index, material_differential, checkmate,
          stalemate, mate_color, resigned, check, highlighted,
          tile_check_api, turn, line, ply, last_op>>

\* --------------------------------------------------------------- data

Files == 0..7

Squares == Files \X Files

Colors == {"WHITE", "BLACK"}

opposite(color) == IF color = "WHITE" THEN "BLACK" ELSE "WHITE"

NonePos == <<>>

NonePiece ==
    [piece_type |-> "NONE", color |-> "NONE", current_pos |-> NonePos,
     has_moved |-> FALSE]

\* A piece object as its constructor leaves it.
NewPiece(piece_type, color, pos) ==
    [piece_type |-> piece_type, color |-> color, current_pos |-> pos,
     has_moved |-> FALSE]

\* PieceValue enum: piece.piece_value.value
piece_value(piece_type) ==
    CASE piece_type = "PAWN" -> 1
      [] piece_type = "KNIGHT" -> 3
      [] piece_type = "BISHOP" -> 3
      [] piece_type = "ROOK" -> 5
      [] piece_type = "QUEEN" -> 9
      [] OTHER -> 0

\* PieceType enum: piece.piece_type.value, the notation symbol
symbol(piece_type) ==
    CASE piece_type = "PAWN" -> "p"
      [] piece_type = "KNIGHT" -> "n"
      [] piece_type = "BISHOP" -> "b"
      [] piece_type = "ROOK" -> "r"
      [] piece_type = "QUEEN" -> "q"
      [] piece_type = "KING" -> "k"

\* str.upper() on the characters a FEN can hold
upper(char) ==
    CASE char = "p" -> "P" [] char = "n" -> "N" [] char = "b" -> "B"
      [] char = "r" -> "R" [] char = "q" -> "Q" [] char = "k" -> "K"
      [] char = "w" -> "W"
      [] OTHER -> char

\* str.lower() on the characters a FEN can hold
lower(char) ==
    CASE char = "P" -> "p" [] char = "N" -> "n" [] char = "B" -> "b"
      [] char = "R" -> "r" [] char = "Q" -> "q" [] char = "K" -> "k"
      [] char = "W" -> "w"
      [] OTHER -> char

\* str.isupper(): the string has a cased character and no lower-case one
isupper(char) == char \in {"P", "N", "B", "R", "Q", "K", "W"}

\* str.isdigit()
isdigit(char) == char \in {"0", "1", "2", "3", "4", "5", "6", "7", "8", "9"}

\* int(char) for a digit
int(char) ==
    CASE char = "0" -> 0 [] char = "1" -> 1 [] char = "2" -> 2
      [] char = "3" -> 3 [] char = "4" -> 4 [] char = "5" -> 5
      [] char = "6" -> 6 [] char = "7" -> 7 [] char = "8" -> 8
      [] char = "9" -> 9

\* str(n) for a count of empty files, 1..8
str(n) == <<"1", "2", "3", "4", "5", "6", "7", "8">>[n]

\* The class table of load_fen: the piece type of a lower-case letter.
piece_class(char) ==
    CASE char = "p" -> "PAWN" [] char = "r" -> "ROOK" [] char = "n" -> "KNIGHT"
      [] char = "b" -> "BISHOP" [] char = "q" -> "QUEEN" [] char = "k" -> "KING"
      [] OTHER -> "KeyError"

\* Board.__init__ creates the tiles, all empty.
EmptyGrid == [s \in Squares |-> NonePiece]

back_rank(file) ==
    CASE file \in {0, 7} -> "ROOK"
      [] file \in {1, 6} -> "KNIGHT"
      [] file \in {2, 5} -> "BISHOP"
      [] file = 3 -> "QUEEN"
      [] file = 4 -> "KING"

\* The grid initialize_pieces fills.
StartGrid ==
    [s \in Squares |->
        CASE s[2] = 1 -> NewPiece("PAWN", "WHITE", s)
          [] s[2] = 6 -> NewPiece("PAWN", "BLACK", s)
          [] s[2] = 0 -> NewPiece(back_rank(s[1]), "WHITE", s)
          [] s[2] = 7 -> NewPiece(back_rank(s[1]), "BLACK", s)
          [] OTHER -> NonePiece]

\* ------------------------------------------------------ serialization

\* One rank of board_state: the inner loop over the files from `file` on.
RECURSIVE fen_row(_, _, _, _)
fen_row(g, rank, file, empty_count) ==
    IF file > 7 THEN <<>>
    ELSE LET piece == g[<<file, rank>>] IN
         IF piece = NonePiece
         THEN (IF file = 7 THEN <<str(empty_count + 1)>> ELSE <<>>)
              \o fen_row(g, rank, file + 1, empty_count + 1)
         ELSE (IF empty_count > 0 THEN <<str(empty_count)>> ELSE <<>>)
              \o <<IF piece.color = "WHITE" THEN upper(symbol(piece.piece_type))
                   ELSE lower(symbol(piece.piece_type))>>
              \o fen_row(g, rank, file + 1, 0)

\* The outer loop of board_state from `rank` down to rank 0: each row is
\* followed by "/".
RECURSIVE fen_rows(_, _)
fen_rows(g, rank) ==
    IF rank < 0 THEN <<>>
    ELSE fen_row(g, rank, 0, 0) \o <<"/">> \o fen_rows(g, rank - 1)

\* board_state(): the piece placement, a sequence of characters; the last "/"
\* is cut (fen_string[:-1]).
board_state(g) ==
    LET fen_string == fen_rows(g, 7) IN SubSeq(fen_string, 1, Len(fen_string) - 1)

\* chr(ord('a') + file)
file_letter(file) == <<"a", "b", "c", "d", "e", "f", "g", "h">>[file + 1]

\* board_state(active_color) with a colour given (lines 555-576): the
\* placement, then the side to move, "-" for the castling rights, the en
\* passant target or "-", and the counters 0 and 1, each after a space.
board_state_active(g, ept, active_color) ==
    LET turn_char == IF active_color = "WHITE" THEN "w" ELSE "b"
        en_passant_field == IF ept # NonePos
                            THEN <<file_letter(ept[1]), str(ept[2] + 1)>>
                            ELSE <<"-">>
    IN board_state(g) \o <<" ", turn_char, " ", "-", " ">> \o en_passant_field
           \o <<" ", "0", " ", "1">>

\* calculate_material()
calculate_material(g) ==
    LET RECURSIVE total(_, _)
        total(color, n) ==
            IF n > 63 THEN 0
            ELSE LET piece == g[<<n % 8, n \div 8>>] IN
                 (IF piece # NonePiece /\ piece.color = color
                  THEN piece_value(piece.piece_type) ELSE 0)
                 + total(color, n + 1)
    IN total("WHITE", 0) - total("BLACK", 0)

\* fen.split('/')
RECURSIVE split(_)
split(fen) ==
    IF \A i \in 1..Len(fen) : fen[i] # "/" THEN <<fen>>
    ELSE LET i == CHOOSE k \in 1..Len(fen) :
                      fen[k] = "/" /\ \A j \in 1..(k - 1) : fen[j] # "/"
         IN <<SubSeq(fen, 1, i - 1)>> \o split(SubSeq(fen, i + 1, Len(fen)))

\* reversed(rank_rows)
reversed(rows) == [i \in 1..Len(rows) |-> rows[Len(rows) + 1 - i]]

\* The piece for a FEN letter with rank index 1 taken as the home rank of the
\* pawns of both colours.
fen_piece_white_rank(char, file_index, rank_index) ==
    LET color == IF isupper(char) THEN "WHITE" ELSE "BLACK"
        piece == NewPiece(piece_class(lower(char)), color, <<file_index, rank_index>>)
    IN IF piece.piece_type = "PAWN" /\ rank_index # 1
       THEN [piece EXCEPT !.has_moved = TRUE]
       ELSE piece

\* The piece load_fen creates for a letter, has_moved set for a pawn that is
\* off its home rank.
fen_piece(char, file_index, rank_index) ==
    LET color == IF isupper(char) THEN "WHITE" ELSE "BLACK"
        piece == NewPiece(piece_class(lower(char)), color, <<file_index, rank_index>>)
    IN IF piece.piece_type = "PAWN"
          /\ ((color = "WHITE" /\ rank_index # 1) \/ (color = "BLACK" /\ rank_index # 6))
       THEN [piece EXCEPT !.has_moved = TRUE]
       ELSE piece

\* The loop of load_fen over the characters of one row, from character i on:
\* the grid and the exception that stopped it, if any.
RECURSIVE load_row(_, _, _, _, _)
load_row(g, row, rank_index, i, file_index) ==
    IF i > Len(row) THEN [grid |-> g, raised |-> "none"]
    ELSE IF isdigit(row[i])
         THEN load_row(g, row, rank_index, i + 1, file_index + int(row[i]))
         ELSE IF piece_class(lower(row[i])) = "KeyError"
              THEN [grid |-> g, raised |-> "KeyError"]
              ELSE IF file_index > 7 \/ rank_index > 7
                   THEN [grid |-> g, raised |-> "IndexError"]
                   ELSE load_row(
                            [g EXCEPT ![<<file_index, rank_index>>] =
                                fen_piece(row[i], file_index, rank_index)],
                            row, rank_index, i + 1, file_index + 1)

\* The loop of load_fen over the reversed rows, from row k on.
RECURSIVE load_rows(_, _, _)
load_rows(g, rows, k) ==
    IF k > Len(rows) THEN [grid |-> g, raised |-> "none"]
    ELSE LET r == load_row(g, rows[k], k - 1, 1, 0) IN
         IF r.raised # "none" THEN r ELSE load_rows(r.grid, rows, k + 1)

\* The grid load_fen builds from fresh tiles (lines 616-665).
fen_grid(fen) == load_rows(EmptyGrid, reversed(split(fen)), 1)

\* ---------------------------------------------- pieces (specification 4.2)

abs(n) == IF n < 0 THEN -n ELSE n

sign(n) == IF n < 0 THEN -1 ELSE IF n > 0 THEN 1 ELSE 0

\* The squares strictly between two squares of one rank, file or diagonal.
between(a, b) ==
    LET df == b[1] - a[1]
        dr == b[2] - a[2]
        n == IF abs(df) > abs(dr) THEN abs(df) ELSE abs(dr)
    IN {<<a[1] + k * sign(df), a[2] + k * sign(dr)>> : k \in 1..(n - 1)}

on_rook_line(a, b) == a # b /\ (a[1] = b[1] \/ a[2] = b[2])

on_bishop_line(a, b) == a # b /\ abs(a[1] - b[1]) = abs(a[2] - b[2])

\* A sliding piece stops at the first occupied square of a direction and
\* captures it if it is an enemy.
slides_to(g, piece, to) ==
    /\ g[to] = NonePiece \/ g[to].color # piece.color
    /\ \A s \in between(piece.current_pos, to) : g[s] = NonePiece

home_rank(color) == IF color = "WHITE" THEN 0 ELSE 7

\* Pawn: one square forward when empty, two from the unmoved pawn when both
\* are empty, one diagonal forward onto an enemy, or onto en_passant_target
\* when the pawn beside it is an enemy pawn.
pawn_moves_to(g, ept, piece, to) ==
    LET file == piece.current_pos[1]
        rank == piece.current_pos[2]
        d == IF piece.color = "WHITE" THEN 1 ELSE -1
    IN \/ to = <<file, rank + d>> /\ g[to] = NonePiece
       \/ /\ to = <<file, rank + 2 * d>>
          /\ ~piece.has_moved
          /\ g[<<file, rank + d>>] = NonePiece
          /\ g[to] = NonePiece
       \/ /\ to[2] = rank + d
          /\ abs(to[1] - file) = 1
          /\ \/ g[to] # NonePiece /\ g[to].color # piece.color
             \/ /\ to = ept
                /\ g[<<to[1], rank>>].piece_type = "PAWN"
                /\ g[<<to[1], rank>>].color # piece.color

\* King castling: king and rook unmoved, the squares between them empty.
\* Whether the king is or passes through check is left to the Board.
castles_to(g, piece, to) ==
    LET home == home_rank(piece.color)
        corner == <<IF to[1] = 6 THEN 7 ELSE 0, home>>
    IN /\ ~piece.has_moved
       /\ piece.current_pos = <<4, home>>
       /\ to \in {<<6, home>>, <<2, home>>}
       /\ g[corner].piece_type = "ROOK"
       /\ g[corner].color = piece.color
       /\ ~g[corner].has_moved
       /\ \A s \in between(piece.current_pos, corner) : g[s] = NonePiece

\* Whether `to` is a pseudo-legal destination of the piece on grid g.
moves_to(g, ept, piece, to) ==
    LET from == piece.current_pos
        df == abs(to[1] - from[1])
        dr == abs(to[2] - from[2])
    IN CASE piece.piece_type = "PAWN" -> pawn_moves_to(g, ept, piece, to)
         [] piece.piece_type = "KNIGHT" ->
                {df, dr} = {1, 2} /\ g[to].color # piece.color
         [] piece.piece_type = "BISHOP" ->
                on_bishop_line(from, to) /\ slides_to(g, piece, to)
         [] piece.piece_type = "ROOK" ->
                on_rook_line(from, to) /\ slides_to(g, piece, to)
         [] piece.piece_type = "QUEEN" ->
                (on_rook_line(from, to) \/ on_bishop_line(from, to))
                /\ slides_to(g, piece, to)
         [] piece.piece_type = "KING" ->
                \/ from # to /\ df <= 1 /\ dr <= 1 /\ g[to].color # piece.color
                \/ castles_to(g, piece, to)
         [] OTHER -> FALSE

\* piece.get_moves(board): the pseudo-legal destinations.
get_moves(g, ept, piece) == {to \in Squares : moves_to(g, ept, piece, to)}

\* Board.en_passant taking the captured pawn from the rank below the target
\* for both colours.
en_passant_white_only(g, ept, piece, new_pos) ==
    LET prev_pos == piece.current_pos
        check_square == <<new_pos[1], new_pos[2] - 1>>
        g1 == IF ept # NonePos /\ new_pos = ept
              THEN [g EXCEPT ![check_square] = NonePiece] ELSE g
        moved == [piece EXCEPT !.current_pos = new_pos, !.has_moved = TRUE]
    IN [grid |-> [g1 EXCEPT ![prev_pos] = NonePiece, ![new_pos] = moved],
        piece |-> moved,
        en_passant_target |-> NonePos]

\* Board.en_passant without line 449: en_passant_target is left as it was.
en_passant_keeps_target(g, ept, piece, new_pos) ==
    LET prev_pos == piece.current_pos
        check_square ==
            IF piece.color = "WHITE" THEN <<new_pos[1], new_pos[2] - 1>>
            ELSE <<new_pos[1], new_pos[2] + 1>>
        g1 == IF ept # NonePos /\ new_pos = ept
              THEN [g EXCEPT ![check_square] = NonePiece] ELSE g
        moved == [piece EXCEPT !.current_pos = new_pos, !.has_moved = TRUE]
    IN [grid |-> [g1 EXCEPT ![prev_pos] = NonePiece, ![new_pos] = moved],
        piece |-> moved,
        en_passant_target |-> ept]

\* Board.en_passant(piece, new_pos): the grid, the pawn and the target after.
en_passant(g, ept, piece, new_pos) ==
    LET prev_pos == piece.current_pos
        check_square ==
            IF piece.color = "WHITE" THEN <<new_pos[1], new_pos[2] - 1>>
            ELSE <<new_pos[1], new_pos[2] + 1>>
        g1 == IF ept # NonePos /\ new_pos = ept
              THEN [g EXCEPT ![check_square] = NonePiece] ELSE g
        moved == [piece EXCEPT !.current_pos = new_pos, !.has_moved = TRUE]
    IN [grid |-> [g1 EXCEPT ![prev_pos] = NonePiece, ![new_pos] = moved],
        piece |-> moved,
        en_passant_target |-> NonePos]

\* piece.move(new_pos, board), the relocation hook: the piece takes its new
\* position and has moved; a pawn goes through Board.en_passant and records
\* the square it passed over after a double step; any other piece's move
\* ends the en passant window.
piece_move(g, ept, piece, new_pos) ==
    IF piece.piece_type = "PAWN"
    THEN LET r == en_passant(g, ept, piece, new_pos)
             from == piece.current_pos
         IN IF abs(new_pos[2] - from[2]) = 2
            THEN [r EXCEPT !.en_passant_target =
                               <<from[1], (from[2] + new_pos[2]) \div 2>>]
            ELSE r
    ELSE [grid |-> g,
          piece |-> [piece EXCEPT !.current_pos = new_pos, !.has_moved = TRUE],
          en_passant_target |-> NonePos]

\* ------------------------------------------------------ legality engine

\* find_king answering the corner tile (0,0) when it finds no king.
find_king_corner(g, color) ==
    LET kings == {s \in Squares : g[s].color = color /\ g[s].piece_type = "KING"}
    IN IF kings = {} THEN <<0, 0>>
       ELSE CHOOSE s \in kings :
                \A t \in kings : s[2] * 8 + s[1] <= t[2] * 8 + t[1]

\* find_king(color): the first king of the colour in the scan by rank, then
\* file; NonePos when there is none.
find_king(g, color) ==
    LET kings == {s \in Squares : g[s].color = color /\ g[s].piece_type = "KING"}
    IN IF kings = {} THEN NonePos
       ELSE CHOOSE s \in kings :
                \A t \in kings : s[2] * 8 + s[1] <= t[2] * 8 + t[1]

\* The grid while check_if_move_into_check simulates the move (lines 366-368).
simulated(g, piece, new_pos) ==
    [g EXCEPT ![piece.current_pos] = NonePiece,
              ![new_pos] = [piece EXCEPT !.current_pos = new_pos]]

RECURSIVE check_for_checks(_, _, _, _)
RECURSIVE get_all_enemy_moves(_, _, _, _)
RECURSIVE get_all_legal(_, _, _, _)
RECURSIVE check_if_move_into_check(_, _, _, _, _)

\* check_for_checks(color), entered with checking_for_checks = flag.
check_for_checks(g, ept, color, flag) ==
    IF flag THEN FALSE
    ELSE LET king_pos == find_king(g, color) IN
         IF king_pos = NonePos THEN FALSE
         ELSE king_pos \in get_all_enemy_moves(g, ept, color, TRUE)

\* get_all_enemy_moves with the colour test of line 295 turned round: the
\* moves of the pieces of the colour itself.
get_all_enemy_moves_own(g, ept, color, flag) ==
    {move \in Squares :
        \E s \in Squares :
            /\ g[s] # NonePiece
            /\ g[s].color = color
            /\ move \in get_moves(g, ept, g[s])}

\* get_all_enemy_moves(color): the squares in get_all_legal of some piece of
\* another colour.
get_all_enemy_moves(g, ept, color, flag) ==
    {move \in Squares :
        \E s \in Squares :
            /\ g[s] # NonePiece
            /\ g[s].color # color
            /\ move \in get_all_legal(g, ept, g[s], flag)}

\* get_all_legal(piece)
get_all_legal(g, ept, piece, flag) ==
    {move \in get_moves(g, ept, piece) :
         ~check_if_move_into_check(g, ept, piece, move, flag)}

\* check_if_move_into_check(piece, new_pos): the value it returns.
check_if_move_into_check(g, ept, piece, new_pos, flag) ==
    check_for_checks(simulated(g, piece, new_pos), ept, piece.color, flag)

\* get_all_moves(color): the squares in get_all_legal of some piece of the
\* colour.
get_all_moves(g, ept, color, flag) ==
    {move \in Squares :
        \E s \in Squares :
            /\ g[s] # NonePiece
            /\ g[s].color = color
            /\ move \in get_all_legal(g, ept, g[s], flag)}

RECURSIVE add_moves_all(_, _)
\* The inner loop of get_all_moves without the test of line 275: every move
\* of curr is appended.
add_moves_all(all_moves, curr) ==
    IF curr = {} THEN all_moves
    ELSE LET move == CHOOSE m \in curr : TRUE
         IN add_moves_all(Append(all_moves, move), curr \ {move})

RECURSIVE add_moves(_, _)
\* The inner loop of get_all_moves and get_all_enemy_moves (lines 274-276,
\* 298-300): the moves of curr that all_moves does not hold yet are appended.
add_moves(all_moves, curr) ==
    IF curr = {} THEN all_moves
    ELSE LET move == CHOOSE m \in curr : TRUE
         IN add_moves(IF \E i \in DOMAIN all_moves : all_moves[i] = move
                      THEN all_moves ELSE Append(all_moves, move),
                      curr \ {move})

RECURSIVE collect_moves(_, _, _, _, _, _)
\* The outer loops of get_all_moves and get_all_enemy_moves from tile number
\* n (rank * 8 + file) on: the pieces whose colour is in `colors` add the
\* moves of their get_all_legal to the list.
collect_moves(g, ept, colors, flag, n, all_moves) ==
    IF n = 64 THEN all_moves
    ELSE LET piece == g[<<n % 8, n \div 8>>]
             next == IF piece # NonePiece /\ piece.color \in colors
                     THEN add_moves(all_moves, get_all_legal(g, ept, piece, flag))
                     ELSE all_moves
         IN IF next = all_moves
            THEN collect_moves(g, ept, colors, flag, n + 1, all_moves)
            ELSE collect_moves(g, ept, colors, flag, n + 1, next)

\* get_all_moves(color) as the list it returns: the pieces with
\* piece.color == color (line 271).
get_all_moves_list(g, ept, color, flag) ==
    collect_moves(g, ept, {color}, flag, 0, <<>>)

\* get_all_enemy_moves(color) as the list it returns: the pieces with
\* piece.color != color (line 295).
get_all_enemy_moves_list(g, ept, color, flag) ==
    collect_moves(g, ept, Colors \ {color}, flag, 0, <<>>)

RECURSIVE check_for_checks_calls_late(_, _, _, _, _)
\* The invocations of check_for_checks if line 335 set the flag one level too
\* late: the calls nested in a top-level call search as well.
check_for_checks_calls_late(g, ept, color, flag, depth) ==
    IF flag \/ find_king(g, color) = NonePos
    THEN {[depth |-> depth, generated |-> FALSE, result |-> FALSE]}
    ELSE {[depth |-> depth, generated |-> TRUE,
           result |-> check_for_checks(g, ept, color, FALSE)]}
         \cup UNION {UNION {check_for_checks_calls_late(
                                simulated(g, g[s], move), ept, g[s].color,
                                depth >= 1, depth + 1) :
                            move \in get_moves(g, ept, g[s])} :
                     s \in {t \in Squares :
                               g[t] # NonePiece /\ g[t].color # color}}

RECURSIVE check_for_checks_calls(_, _, _, _, _)
\* The invocations of check_for_checks that one call of it, entered at nesting
\* level `depth` with checking_for_checks = flag, makes (itself included):
\* for each its level, whether it went on to generate moves (lines 338-343)
\* and what it returned.  Every check_if_move_into_check of the enemy-move
\* loops calls check_for_checks again, with the flag line 335 has set.
check_for_checks_calls(g, ept, color, flag, depth) ==
    IF flag \/ find_king(g, color) = NonePos
    THEN {[depth |-> depth, generated |-> FALSE, result |-> FALSE]}
    ELSE {[depth |-> depth, generated |-> TRUE,
           result |-> check_for_checks(g, ept, color, FALSE)]}
         \cup UNION {UNION {check_for_checks_calls(
                                simulated(g, g[s], move), ept, g[s].color,
                                TRUE, depth + 1) :
                            move \in get_moves(g, ept, g[s])} :
                     s \in {t \in Squares :
                               g[t] # NonePiece /\ g[t].color # color}}

\* The way one check_for_checks call that finds checking_for_checks false
\* ends, given find_king's answer: "340" with no king, "343" with one.
return_path(king_pos) == IF king_pos = NonePos THEN "340" ELSE "343"

\* check_for_checks_flag clearing the flag only on the way out through line
\* 343: a call that finds no king leaves it set.
check_for_checks_flag_no_finally(path, flag) ==
    IF flag THEN flag
    ELSE IF path = "343" THEN FALSE ELSE TRUE

\* checking_for_checks when a check_for_checks call returns that was entered
\* with the flag and ended on the path ("340", "343", or "raise" for an
\* exception out of lines 338-343).  Line 333 returns without assigning it;
\* past it line 335 sets it and the finally clause of line 346 clears it on
\* every path.
check_for_checks_flag(path, flag) ==
    IF flag THEN flag
    ELSE CASE path = "340" -> FALSE
           [] path = "343" -> FALSE
           [] OTHER -> FALSE

\* checking_for_checks after get_all_legal(piece) has called
\* check_if_move_into_check, and that check_for_checks, for each of the moves,
\* one after another, starting with the flag.  A call entered with the flag set
\* returns at line 333 and leaves it set, so the flag is set after the calls
\* when it was set before them or one of them, entered with it clear, has left
\* it set.
flag_after_legal(g, piece, moves, flag) ==
    \/ flag
    \/ \E move \in moves :
           check_for_checks_flag(
               return_path(find_king(simulated(g, piece, move), piece.color)),
               FALSE)

\* checking_for_checks after the scan of get_all_moves or get_all_enemy_moves:
\* get_all_legal for every piece of the colours, tile after tile.
flag_after_all(g, ept, colors, flag) ==
    \/ flag
    \/ \E s \in Squares :
           /\ g[s] # NonePiece
           /\ g[s].color \in colors
           /\ flag_after_legal(g, g[s], get_moves(g, ept, g[s]), FALSE)

\* What the check_for_checks calls nested in a running one leave in
\* checking_for_checks: the calls that get_all_enemy_moves makes through
\* get_all_legal for the pieces of the colours, each entered with the flag
\* set by line 335 of the outer call.
nested_call_flags(g, ept, colors) ==
    {check_for_checks_flag(
         return_path(find_king(simulated(g, c[1], c[2]), c[1].color)), TRUE) :
        c \in {d \in {g[s] : s \in {t \in Squares : g[t] # NonePiece
                                                    /\ g[t].color \in colors}}
                       \X Squares :
                   d[2] \in get_moves(g, ept, d[1])}}

\* The undo of check_if_move_into_check without line 375: the piece the target
\* tile held is not put back.
undo_move_keeps_target(mid, piece, current_pos, new_pos, captured_piece) ==
    [mid EXCEPT ![current_pos] = [piece EXCEPT !.current_pos = current_pos]]

\* The undo of check_if_move_into_check (lines 374-376) on the grid `mid` that
\* its check_for_checks call has left.
undo_move(mid, piece, current_pos, new_pos, captured_piece) ==
    [mid EXCEPT ![current_pos] = [piece EXCEPT !.current_pos = current_pos],
                ![new_pos] = captured_piece]

\* The grid a check_if_move_into_check(piece, new_pos) call leaves when it is
\* made while check_for_checks is in flight: the nested check_for_checks
\* returns at line 333 and touches nothing.
nested_leaves(g, piece, new_pos) ==
    undo_move(simulated(g, piece, new_pos), piece, piece.current_pos, new_pos,
              g[new_pos])

RECURSIVE get_all_legal_leaves(_, _, _)
\* The grid the loop of get_all_legal (lines 392-394) leaves over the moves
\* still to try, while check_for_checks is in flight.
get_all_legal_leaves(g, piece, check_moves) ==
    IF check_moves = {} THEN g
    ELSE LET move == CHOOSE m \in check_moves : TRUE
             after == nested_leaves(g, piece, move)
         IN IF after = g
            THEN get_all_legal_leaves(g, piece, check_moves \ {move})
            ELSE get_all_legal_leaves(after, piece, check_moves \ {move})

RECURSIVE get_all_enemy_moves_leaves(_, _, _, _)
\* The grid the loops of get_all_enemy_moves (lines 292-300) leave from tile
\* number n (rank * 8 + file) on.
get_all_enemy_moves_leaves(g, ept, color, n) ==
    IF n = 64 THEN g
    ELSE LET piece == g[<<n % 8, n \div 8>>]
             after == IF piece # NonePiece /\ piece.color # color
                      THEN get_all_legal_leaves(g, piece, get_moves(g, ept, piece))
                      ELSE g
         IN IF after = g
            THEN get_all_enemy_moves_leaves(g, ept, color, n + 1)
            ELSE get_all_enemy_moves_leaves(after, ept, color, n + 1)

\* The grid a top-level check_if_move_into_check(piece, new_pos) leaves.
check_if_move_into_check_leaves(g, ept, piece, new_pos) ==
    LET sim == simulated(g, piece, new_pos)
        mid == IF find_king(sim, piece.color) = NonePos THEN sim
               ELSE get_all_enemy_moves_leaves(sim, ept, piece.color, 0)
    IN undo_move(mid, piece, piece.current_pos, new_pos, g[new_pos])

\* ---------------------------------------------------- Board operations
\* An operation takes the Board as a record of its fields and gives the Board
\* it leaves, with `raised` the exception that ended it ("none": it returned).

\* The Board as a record of the variables.
Board ==
    [grid |-> grid, selected_piece |-> selected_piece,
     checking_for_checks |-> checking_for_checks,
     en_passant_target |-> en_passant_target, move_history |-> move_history,
     current_index |-> current_index,
     material_differential |-> material_differential, checkmate |-> checkmate,
     stalemate |-> stalemate, mate_color |-> mate_color, resigned |-> resigned,
     check |-> check, highlighted |-> highlighted, raised |-> "none"]

\* is_curr_pos(); move_history[k] of the source is move_history[k + 1] here.
is_curr_pos(b) == b.current_index = Len(b.move_history) - 1

\* remove_check_indicators(): Tile.clear_check on every tile.  The Tile of
\* src/_board/tile.py has no clear_check: the first call raises.
remove_check_indicators(b) ==
    IF tile_check_api THEN [b EXCEPT !.check = {}]
    ELSE [b EXCEPT !.raised = "AttributeError"]

\* highlight_king_in_check(color): Tile.set_check on the king's tile.
highlight_king_in_check(b, color) ==
    IF check_for_checks(b.grid, b.en_passant_target, color, b.checking_for_checks)
    THEN LET king_pos == find_king(b.grid, color) IN
         IF king_pos = NonePos THEN b
         ELSE IF tile_check_api THEN [b EXCEPT !.check = @ \cup {king_pos}]
              ELSE [b EXCEPT !.raised = "AttributeError"]
    ELSE b

\* The record initialize_pieces and move_piece append.
record(piece, from, to, captured, g) ==
    [Piece |-> piece, From |-> from, To |-> to, Captured |-> captured,
     FEN |-> board_state(g)]

\* initialize_pieces(): the starting layout and the seed record.
initialize_pieces(b) ==
    LET history == Append(b.move_history,
                          record(NonePiece, NonePos, NonePos, NonePiece, StartGrid))
    IN [b EXCEPT !.grid = StartGrid, !.move_history = history,
                 !.current_index = Len(history) - 1]

\* Board(): the fields of __init__, then initialize_pieces.
NewBoard ==
    initialize_pieces(
        [grid |-> EmptyGrid, selected_piece |-> NonePiece,
         checking_for_checks |-> FALSE, en_passant_target |-> NonePos,
         move_history |-> <<>>, current_index |-> -1,
         material_differential |-> 0, checkmate |-> FALSE, stalemate |-> FALSE,
         mate_color |-> "NONE", resigned |-> FALSE, check |-> {},
         highlighted |-> {}, raised |-> "none"])

\* The castling part of move_piece with one corner for both flanks: the rook
\* of file 7 is the one relocated, to file 5, also when the king goes to file 2.
castling_one_flank(g, piece, before_move_file, file, rank) ==
    LET relocate(from, to) ==
            IF g[from] # NonePiece
            THEN [g EXCEPT ![to] = [g[from] EXCEPT !.current_pos = to],
                           ![from] = NonePiece]
            ELSE g
    IN IF piece.piece_type = "KING" /\ before_move_file = 4
       THEN CASE piece.color = "WHITE" /\ rank = 0 /\ file \in {2, 6} ->
                     relocate(<<7, 0>>, <<5, 0>>)
              [] piece.color = "BLACK" /\ rank = 7 /\ file \in {2, 6} ->
                     relocate(<<7, 7>>, <<5, 7>>)
              [] OTHER -> g
       ELSE g

\* The castling part of move_piece (lines 133-165): the piece on the rook's
\* corner, if any, is put beside the king.
castling(g, piece, before_move_file, file, rank) ==
    LET relocate(from, to) ==
            IF g[from] # NonePiece
            THEN [g EXCEPT ![to] = [g[from] EXCEPT !.current_pos = to],
                           ![from] = NonePiece]
            ELSE g
    IN IF piece.piece_type = "KING" /\ before_move_file = 4
       THEN CASE piece.color = "WHITE" /\ rank = 0 /\ file = 6 ->
                     relocate(<<7, 0>>, <<5, 0>>)
              [] piece.color = "WHITE" /\ rank = 0 /\ file = 2 ->
                     relocate(<<0, 0>>, <<3, 0>>)
              [] piece.color = "BLACK" /\ rank = 7 /\ file = 6 ->
                     relocate(<<7, 7>>, <<5, 7>>)
              [] piece.color = "BLACK" /\ rank = 7 /\ file = 2 ->
                     relocate(<<0, 7>>, <<3, 7>>)
              [] OTHER -> g
       ELSE g

\* move_piece lines 106-119: the immediate update for the captured piece.
capture_update(material, captured_piece) ==
    IF captured_piece = NonePiece THEN material
    ELSE IF captured_piece.color = "WHITE"
         THEN material - piece_value(captured_piece.piece_type)
         ELSE IF captured_piece.color = "BLACK"
              THEN material + piece_value(captured_piece.piece_type)
              ELSE material

\* move_piece lines 167-199: the check markers, then the history record.
move_piece_tail(b, piece, before_move, target, captured_piece) ==
    LET enemy_color == opposite(piece.color)
        b1 == remove_check_indicators(b)
        b2 == IF b1.raised = "none"
                 /\ check_for_checks(b1.grid, b1.en_passant_target, enemy_color,
                                     b1.checking_for_checks)
              THEN highlight_king_in_check(b1, enemy_color) ELSE b1
        b3 == IF b2.raised = "none"
                 /\ check_for_checks(b2.grid, b2.en_passant_target, piece.color,
                                     b2.checking_for_checks)
              THEN highlight_king_in_check(b2, piece.color) ELSE b2
        history == Append(b3.move_history,
                          record(piece, before_move, target, captured_piece, b3.grid))
        \* lines 176-183: check_for_checks for either colour
        flag == check_for_checks_flag(
                    return_path(find_king(b3.grid, piece.color)),
                    check_for_checks_flag(
                        return_path(find_king(b3.grid, enemy_color)),
                        b3.checking_for_checks))
    IN IF b3.raised # "none" THEN b3
       ELSE [b3 EXCEPT !.move_history = history,
                       !.current_index = Len(history) - 1,
                       !.selected_piece = NonePiece,
                       !.checking_for_checks = flag]

\* move_piece lines 102-199: what the call does once it is past the
\* is_curr_pos guard.
move_piece_apply(b, file, rank) ==
    IF b.selected_piece = NonePiece
    THEN [b EXCEPT !.raised = "AttributeError"]
    ELSE LET target == <<file, rank>>
             before_move == b.selected_piece.current_pos
             captured_piece == b.grid[target]
             b1 == [b EXCEPT !.material_differential =
                                 capture_update(@, captured_piece)]
             mv == piece_move(b.grid, b.en_passant_target, b.selected_piece, target)
             piece == mv.piece
             g1 == [mv.grid EXCEPT ![target] = piece]
             g2 == [g1 EXCEPT ![before_move] = NonePiece]
             g3 == castling(g2, piece, before_move[1], file, rank)
         IN move_piece_tail(
                [b1 EXCEPT !.grid = g3, !.selected_piece = piece,
                           !.en_passant_target = mv.en_passant_target,
                           !.material_differential = calculate_material(g2)],
                piece, before_move, target, captured_piece)

\* move_piece without lines 99-100: the move is applied whatever position
\* the Board shows.
move_piece_unguarded(b, file, rank) == move_piece_apply(b, file, rank)

\* move_piece(file, rank)
move_piece(b, file, rank) ==
    IF ~is_curr_pos(b) THEN b ELSE move_piece_apply(b, file, rank)

\* get_piece(piece)
get_piece(b, piece) == [b EXCEPT !.selected_piece = piece]

\* highlight_moves(): the tiles of get_all_legal(selected_piece) are
\* highlighted.
highlight_moves(b) ==
    IF b.selected_piece = NonePiece THEN b
    ELSE [b EXCEPT !.highlighted =
                       @ \cup get_all_legal(b.grid, b.en_passant_target,
                                            b.selected_piece,
                                            b.checking_for_checks),
                   !.checking_for_checks =
                       flag_after_legal(
                           b.grid, b.selected_piece,
                           get_moves(b.grid, b.en_passant_target,
                                     b.selected_piece),
                           @)]

\* remove_highlights()
remove_highlights(b) == [b EXCEPT !.highlighted = {}]

\* resign naming the resigning colour itself as the winner.
resign_winner_self(b, resigning_color) ==
    [b EXCEPT !.resigned = TRUE, !.checkmate = TRUE,
              !.mate_color = resigning_color]

\* resign setting the resigned flag alone.
resign_flag_only(b, resigning_color) ==
    [b EXCEPT !.resigned = TRUE]

\* resign(resigning_color)
resign(b, resigning_color) ==
    [b EXCEPT !.resigned = TRUE, !.checkmate = TRUE,
              !.mate_color = opposite(resigning_color)]

\* check_draw counting a position as drawn only below four pieces.
check_draw_below_four(b) ==
    IF \E s \in Squares : b.grid[s].piece_type \in {"ROOK", "QUEEN", "PAWN"}
    THEN 0
    ELSE IF Cardinality({s \in Squares : b.grid[s] # NonePiece}) < 4
         THEN 1 ELSE 0

RECURSIVE check_draw_scan(_, _, _)
\* The scan of check_draw (lines 708-719) from tile number n (rank * 8 + file)
\* on, with piece_count pieces met so far: 0 at the first rook, queen or pawn,
\* else the test of lines 721-724.
check_draw_scan(b, n, piece_count) ==
    IF n = 64 THEN (IF piece_count <= 4 THEN 1 ELSE 0)
    ELSE LET piece == b.grid[<<n % 8, n \div 8>>]
         IN IF piece = NonePiece THEN check_draw_scan(b, n + 1, piece_count)
            ELSE IF piece.piece_type \in {"ROOK", "QUEEN", "PAWN"} THEN 0
                 ELSE check_draw_scan(b, n + 1, piece_count + 1)

\* check_draw()
check_draw(b) == check_draw_scan(b, 0, 0)

\* GameView.on_mouse_press lines 619-647, on the Board b1 that lines 614-616
\* leave: the mate test when the piece is a king without a legal move, then
\* the draw test; flag1, flag2 and flag3 are checking_for_checks after the
\* get_all_legal, get_all_moves and get_all_enemy_moves calls made.
on_mouse_press_tests(b1, piece) ==
    LET g == b1.grid
        ept == b1.en_passant_target
        flag == b1.checking_for_checks
        king_stuck == /\ piece.piece_type = "KING"
                      /\ get_all_legal(g, ept, piece, flag) = {}
        no_moves == king_stuck /\ get_all_moves(g, ept, piece.color, flag) = {}
        flag1 == IF piece.piece_type = "KING"
                 THEN flag_after_legal(g, piece, get_moves(g, ept, piece), flag)
                 ELSE flag
        flag2 == IF king_stuck
                 THEN flag_after_all(g, ept, {piece.color}, flag1)
                 ELSE flag1
        flag3 == IF no_moves
                 THEN flag_after_all(g, ept, Colors \ {piece.color}, flag2)
                 ELSE flag2
        b2 == [b1 EXCEPT !.checking_for_checks = flag3]
    IN IF no_moves
       THEN IF piece.current_pos \in get_all_enemy_moves(g, ept, piece.color, flag)
            THEN [b2 EXCEPT !.checkmate = TRUE,
                            !.mate_color = opposite(piece.color)]
            ELSE [b2 EXCEPT !.stalemate = TRUE]
       ELSE IF check_draw(b2) = 1
            THEN [b2 EXCEPT !.stalemate = TRUE]
            ELSE b2

\* GameView.on_mouse_press on a tile that holds a piece of the player's
\* colour (lines 612-647): remove_highlights, get_piece and highlight_moves,
\* then the tests on the Board they leave.
on_mouse_press_piece(b, piece) ==
    LET shown == highlight_moves(get_piece(remove_highlights(b), piece))
    IN CHOOSE after \in {on_mouse_press_tests(b1, piece) : b1 \in {shown}} : TRUE

\* GameView.make_bot_move() up to the call of the opponent's move (lines
\* 696-728): nothing while a historical position is shown or the game is
\* over; with no move for bot_color, checkmate or stalemate by the first king
\* of bot_color in the scan; then the draw test.  flag1 and flag2 are
\* checking_for_checks after get_all_moves and get_all_enemy_moves.
make_bot_move(b, bot_color) ==
    LET g == b.grid
        ept == b.en_passant_target
        flag == b.checking_for_checks
        king_pos == find_king(g, bot_color)
        no_moves == get_all_moves(g, ept, bot_color, flag) = {}
        flag1 == flag_after_all(g, ept, {bot_color}, flag)
        flag2 == IF no_moves
                 THEN flag_after_all(g, ept, Colors \ {bot_color}, flag1)
                 ELSE flag1
        b1 == [b EXCEPT !.checking_for_checks = flag2]
        drawn == IF check_draw(b1) = 1 THEN [b1 EXCEPT !.stalemate = TRUE] ELSE b1
    IN IF ~is_curr_pos(b) \/ b.checkmate \/ b.stalemate THEN b
       ELSE IF no_moves /\ king_pos # NonePos
            THEN IF king_pos \in get_all_enemy_moves(g, ept, bot_color, flag)
                 THEN [b1 EXCEPT !.checkmate = TRUE,
                                 !.mate_color = opposite(bot_color)]
                 ELSE [b1 EXCEPT !.stalemate = TRUE]
            ELSE drawn

\* promote putting a rook, not a queen, on the square.
promote_to_rook(b, color, file, rank) ==
    [b EXCEPT !.grid[<<file, rank>>] = NewPiece("ROOK", color, <<file, rank>>)]

\* promote building the queen with rank and file exchanged.
promote_swapped(b, color, file, rank) ==
    [b EXCEPT !.grid[<<file, rank>>] = NewPiece("QUEEN", color, <<rank, file>>)]

\* promote(color, file, rank)
promote(b, color, file, rank) ==
    [b EXCEPT !.grid[<<file, rank>>] = NewPiece("QUEEN", color, <<file, rank>>)]

\* reset_board(): new tiles, the fields of __init__, the check markers, then
\* initialize_pieces.
reset_board(b) ==
    LET b1 == remove_check_indicators(
                  [b EXCEPT !.grid = EmptyGrid, !.check = {},
                            !.highlighted = {},
                            !.selected_piece = NonePiece,
                            !.checking_for_checks = FALSE,
                            !.en_passant_target = NonePos,
                            !.move_history = <<>>, !.current_index = -1,
                            !.material_differential = 0, !.checkmate = FALSE,
                            !.stalemate = FALSE, !.mate_color = "NONE",
                            !.resigned = FALSE])
    IN IF b1.raised # "none" THEN b1 ELSE initialize_pieces(b1)

\* load_fen dropping the selection and the en passant target along with the
\* tiles.
load_fen_deselects(b, fen) ==
    LET r == fen_grid(fen)
        b1 == [b EXCEPT !.grid = r.grid, !.check = {}, !.highlighted = {},
                        !.selected_piece = NonePiece,
                        !.en_passant_target = NonePos]
    IN IF r.raised # "none" THEN [b1 EXCEPT !.raised = r.raised]
       ELSE remove_check_indicators(
                [b1 EXCEPT !.material_differential = calculate_material(r.grid)])

\* load_fen keeping the tiles it finds: the pieces of the placement are put
\* on them and the highlights stay.
load_fen_keeps_tiles(b, fen) ==
    LET r == fen_grid(fen)
        b1 == [b EXCEPT !.grid = r.grid]
    IN IF r.raised # "none" THEN [b1 EXCEPT !.raised = r.raised]
       ELSE remove_check_indicators(
                [b1 EXCEPT !.material_differential = calculate_material(r.grid)])

\* load_fen(fen): new tiles, the pieces of the placement, the material, the
\* check markers.
load_fen(b, fen) ==
    LET r == fen_grid(fen)
        b1 == [b EXCEPT !.grid = r.grid, !.check = {}, !.highlighted = {}]
    IN IF r.raised # "none" THEN [b1 EXCEPT !.raised = r.raised]
       ELSE remove_check_indicators(
                [b1 EXCEPT !.material_differential = calculate_material(r.grid)])

\* show_prev_move reading the record before it steps the index: the Board
\* shows the position it already showed.
show_prev_move_stale(b) ==
    IF b.current_index > 0
    THEN load_fen([b EXCEPT !.current_index = @ - 1],
                  b.move_history[b.current_index + 1].FEN)
    ELSE b

\* GameView.show_prev_move()
show_prev_move(b) ==
    IF b.current_index > 0
    THEN load_fen([b EXCEPT !.current_index = @ - 1],
                  b.move_history[b.current_index].FEN)
    ELSE b

\* GameView.show_next_move()
show_next_move(b) ==
    IF b.current_index < Len(b.move_history) - 1
    THEN load_fen([b EXCEPT !.current_index = @ + 1],
                  b.move_history[b.current_index + 2].FEN)
    ELSE b

\* ------------------------------------------------------------ callers
\* The callers of the Board (the view's handlers and the opponent) play the
\* games of Book, one move of each colour in turn, through get_piece and
\* move_piece with a target taken from get_all_legal; the view promotes a
\* pawn right after the move that brought it to its last rank.

MaxPly == 14

\* How far behind the last record the history keys are taken.
MaxBack == 2

\* Games, each a sequence of <<from, to>>.
Book ==
    << \* a king walk, an en passant capture along a pinned rank, and the rook
       \* takes on the king's square
       << <<<<4,1>>,<<4,3>>>>, <<<<0,6>>,<<0,4>>>>, <<<<4,3>>,<<4,4>>>>,
          <<<<0,4>>,<<0,3>>>>, <<<<4,0>>,<<4,1>>>>, <<<<0,7>>,<<0,4>>>>,
          <<<<4,1>>,<<4,2>>>>, <<<<1,7>>,<<2,5>>>>, <<<<4,2>>,<<5,3>>>>,
          <<<<2,5>>,<<1,7>>>>, <<<<5,3>>,<<6,4>>>>, <<<<3,6>>,<<3,4>>>>,
          <<<<4,4>>,<<3,5>>>>, <<<<0,4>>,<<6,4>>>> >>,
       \* two pawn captures, a promotion, a capture by the new queen
       << <<<<0,1>>,<<0,3>>>>, <<<<1,6>>,<<1,4>>>>, <<<<0,3>>,<<1,4>>>>,
          <<<<0,6>>,<<0,5>>>>, <<<<1,4>>,<<0,5>>>>, <<<<1,7>>,<<2,5>>>>,
          <<<<0,5>>,<<0,6>>>>, <<<<0,7>>,<<1,7>>>>, <<<<0,6>>,<<0,7>>>>,
          <<<<2,5>>,<<4,4>>>>, <<<<0,7>>,<<1,7>>>> >>,
       \* both sides castle short
       << <<<<4,1>>,<<4,3>>>>, <<<<4,6>>,<<4,4>>>>, <<<<6,0>>,<<5,2>>>>,
          <<<<1,7>>,<<2,5>>>>, <<<<5,0>>,<<2,3>>>>, <<<<5,7>>,<<2,4>>>>,
          <<<<4,0>>,<<6,0>>>>, <<<<6,7>>,<<5,5>>>>, <<<<3,1>>,<<3,2>>>>,
          <<<<4,7>>,<<6,7>>>> >>,
       \* a mate in four by the queen; Black then clicks the king
       << <<<<4,1>>,<<4,3>>>>, <<<<4,6>>,<<4,4>>>>, <<<<5,0>>,<<2,3>>>>,
          <<<<1,7>>,<<2,5>>>>, <<<<3,0>>,<<7,4>>>>, <<<<6,7>>,<<5,5>>>>,
          <<<<7,4>>,<<5,6>>>>, <<<<4,7>>,<<5,6>>>> >>,
       \* an en passant capture and the recapture
       << <<<<4,1>>,<<4,3>>>>, <<<<0,6>>,<<0,5>>>>, <<<<4,3>>,<<4,4>>>>,
          <<<<3,6>>,<<3,4>>>>, <<<<4,4>>,<<3,5>>>>, <<<<2,6>>,<<3,5>>>> >>,
       \* both sides castle long
       << <<<<3,1>>,<<3,3>>>>, <<<<3,6>>,<<3,4>>>>, <<<<1,0>>,<<2,2>>>>,
          <<<<1,7>>,<<2,5>>>>, <<<<2,0>>,<<5,3>>>>, <<<<2,7>>,<<5,4>>>>,
          <<<<3,0>>,<<3,1>>>>, <<<<3,7>>,<<3,6>>>>, <<<<4,0>>,<<2,0>>>>,
          <<<<4,7>>,<<2,7>>>> >>,
       \* a bishop on (0,5) looks at (5,0) when White castles short
       << <<<<6,1>>,<<6,2>>>>, <<<<1,6>>,<<1,5>>>>, <<<<5,0>>,<<6,1>>>>,
          <<<<2,7>>,<<0,5>>>>, <<<<4,1>>,<<4,2>>>>, <<<<1,7>>,<<2,5>>>>,
          <<<<6,0>>,<<5,2>>>>, <<<<2,5>>,<<1,7>>>>, <<<<4,0>>,<<6,0>>>> >>,
       \* a mate in two by the Black queen
       << <<<<5,1>>,<<5,2>>>>, <<<<4,6>>,<<4,4>>>>, <<<<6,1>>,<<6,3>>>>,
          <<<<3,7>>,<<7,3>>>> >>,
       \* a capture that has been on offer for two moves
       << <<<<4,1>>,<<4,3>>>>, <<<<3,6>>,<<3,4>>>>, <<<<7,1>>,<<7,2>>>>,
          <<<<7,6>>,<<7,5>>>>, <<<<4,3>>,<<3,4>>>> >> >>

Lines == DOMAIN Book

\* Game.user_color: the user plays Black in games 4 and 8, White in the
\* others; the opponent plays the other colour.
user_color == IF line \in {4, 8} THEN "BLACK" ELSE "WHITE"

\* The next move of the game being played, <<>> when it is over.
next_move ==
    IF ply < Len(Book[line]) /\ ply < MaxPly THEN Book[line][ply + 1] ELSE <<>>

\* A pawn stands on the target, on its last rank (view.py 809-811).
pawn_on_last_rank(g, target) ==
    /\ g[target].piece_type = "PAWN"
    /\ \/ target[2] = 7 /\ g[target].color = "WHITE"
       \/ target[2] = 0 /\ g[target].color = "BLACK"

\* move_piece has returned and a pawn stands on the target, on its last rank:
\* the view calls promote next (move_piece_and_update_sprites, lines 808-814).
promotion_pending ==
    /\ last_op.name = "move_piece"
    /\ last_op.raised = "none"
    /\ grid[last_op.arg].piece_type = "PAWN"
    /\ \/ last_op.arg[2] = 7 /\ grid[last_op.arg].color = "WHITE"
       \/ last_op.arg[2] = 0 /\ grid[last_op.arg].color = "BLACK"

\* The Board takes the fields of record b.
becomes(b) ==
    /\ grid' = b.grid
    /\ selected_piece' = b.selected_piece
    /\ checking_for_checks' = b.checking_for_checks
    /\ en_passant_target' = b.en_passant_target
    /\ move_history' = b.move_history
    /\ current_index' = b.current_index
    /\ material_differential' = b.material_differential
    /\ checkmate' = b.checkmate
    /\ stalemate' = b.stalemate
    /\ mate_color' = b.mate_color
    /\ resigned' = b.resigned
    /\ check' = b.check
    /\ highlighted' = b.highlighted

called(name, arg, b) ==
    last_op' = [name |-> name, arg |-> arg, raised |-> b.raised,
                applied |-> b.grid # grid]

\* The state after Board(): the caller picks a game of Book.
InitWith(api) ==
    /\ grid = NewBoard.grid
    /\ selected_piece = NewBoard.selected_piece
    /\ checking_for_checks = NewBoard.checking_for_checks
    /\ en_passant_target = NewBoard.en_passant_target
    /\ move_history = NewBoard.move_history
    /\ current_index = NewBoard.current_index
    /\ material_differential = NewBoard.material_differential
    /\ checkmate = NewBoard.checkmate
    /\ stalemate = NewBoard.stalemate
    /\ mate_color = NewBoard.mate_color
    /\ resigned = NewBoard.resigned
    /\ check = NewBoard.check
    /\ highlighted = NewBoard.highlighted
    /\ tile_check_api = api
    /\ turn = "WHITE"
    /\ line \in Lines
    /\ ply = 0
    /\ last_op = [name |-> "__init__", arg |-> <<>>, raised |-> "none",
                  applied |-> FALSE]

\* The game is over: the view takes no click on the board and plays no move
\* (view.py 595, 698, 795).
game_over == checkmate \/ stalemate \/ resigned

\* The piece of the game's next move is selected: by the user's click, or by
\* the opponent.
GetPiece ==
    /\ ~promotion_pending
    /\ ~game_over
    /\ next_move # <<>>
    /\ grid[next_move[1]] # NonePiece
    /\ grid[next_move[1]].color = turn
    /\ turn = user_color \/ is_curr_pos(Board)
    /\ LET b == IF turn = user_color
                 THEN on_mouse_press_piece(Board, grid[next_move[1]])
                 ELSE get_piece(Board, grid[next_move[1]])
       IN becomes(b) /\ called("get_piece", next_move[1], b)
    /\ UNCHANGED <<tile_check_api, turn, line, ply>>

\* move_piece_and_update_sprites before it calls move_piece (lines 798-803):
\* the piece on the target tile is taken off the grid.
target_cleared(b, target) == [b EXCEPT !.grid[target] = NonePiece]

\* The Board as move_piece is called: the user's move comes through the
\* handler (remove_highlights) and move_piece_and_update_sprites, the
\* opponent's does not.
before_move_piece(b, target) ==
    IF turn = user_color THEN target_cleared(remove_highlights(b), target) ELSE b

\* Whether the move to the target can be made now.  The user's click or drop
\* moves the selected piece when the tile is highlighted and holds no piece
\* of the user (view.py 613, 662, 863); the opponent plays on the current
\* position a move that get_all_legal offers for the piece it selected.
offered(target) ==
    IF turn = user_color
    THEN /\ target \in highlighted
         /\ grid[target].color # user_color
    ELSE /\ is_curr_pos(Board)
         /\ grid[selected_piece.current_pos] = selected_piece
         /\ target \in get_all_legal(grid, en_passant_target, selected_piece,
                                     checking_for_checks)

\* The handlers after move_piece_and_update_sprites has returned from a move
\* of the user that is no promotion (view.py 668-670, 867-869): make_bot_move;
\* b is the Board move_piece left, target the tile moved to.  An exception of
\* move_piece ends the handler before that.
after_move(b, target) ==
    IF /\ b.raised = "none"
       /\ turn = user_color
       /\ ~pawn_on_last_rank(b.grid, target)
    THEN make_bot_move(b, opposite(user_color))
    ELSE b

\* MovePiece without the view's tests of the end of the game: the move is
\* handed to move_piece also after checkmate, stalemate or a resignation.
MovePieceAfterEnd ==
    /\ ~promotion_pending
    /\ next_move # <<>>
    /\ selected_piece # NonePiece
    /\ selected_piece.current_pos = next_move[1]
    /\ offered(next_move[2])
    /\ LET b == after_move(move_piece(before_move_piece(Board, next_move[2]),
                                       next_move[2][1], next_move[2][2]),
                            next_move[2])
           applied == is_curr_pos(Board)
       IN /\ becomes(b)
          /\ last_op' = [name |-> "move_piece", arg |-> next_move[2],
                         raised |-> b.raised, applied |-> applied]
          /\ ply' = IF applied THEN ply + 1 ELSE ply
          /\ turn' = IF applied THEN opposite(turn) ELSE turn
    /\ UNCHANGED <<tile_check_api, line>>

\* The selected piece is moved to the target of the game's next move.  For
\* the user move_piece_and_update_sprites clears the target tile and calls
\* move_piece, which does nothing while the Board shows a historical position;
\* make_bot_move follows.  The opponent moves only on the current position
\* (view.py 698).
MovePiece ==
    /\ ~promotion_pending
    /\ ~game_over
    /\ next_move # <<>>
    /\ selected_piece # NonePiece
    /\ selected_piece.current_pos = next_move[1]
    /\ offered(next_move[2])
    /\ LET b == after_move(move_piece(before_move_piece(Board, next_move[2]),
                                       next_move[2][1], next_move[2][2]),
                            next_move[2])
           applied == is_curr_pos(Board)
       IN /\ becomes(b)
          /\ last_op' = [name |-> "move_piece", arg |-> next_move[2],
                         raised |-> b.raised, applied |-> applied]
          /\ ply' = IF applied THEN ply + 1 ELSE ply
          /\ turn' = IF applied THEN opposite(turn) ELSE turn
    /\ UNCHANGED <<tile_check_api, line>>

\* The view promotes the pawn that has just reached its last rank; after a
\* promotion of the user's pawn the handler goes on to make_bot_move.
Promote ==
    /\ promotion_pending
    /\ LET color == grid[last_op.arg].color
           promoted == promote(Board, color, last_op.arg[1], last_op.arg[2])
           b == IF color = user_color
                THEN make_bot_move(promoted, opposite(user_color))
                ELSE promoted
       IN becomes(b) /\ called("promote", last_op.arg, b)
    /\ UNCHANGED <<tile_check_api, turn, line, ply>>

\* The RESIGN button (shown until the game is over): the user resigns.
Resign ==
    /\ ~promotion_pending
    /\ ~game_over
    /\ LET b == resign(Board, user_color) IN
       becomes(b) /\ called("resign", <<user_color>>, b)
    /\ UNCHANGED <<tile_check_api, turn, line, ply>>

\* The NEW GAME and colour buttons: reset_board, then a new game of Book.
ResetBoard ==
    /\ ~promotion_pending
    /\ LET b == reset_board(Board) IN
       becomes(b) /\ called("reset_board", <<>>, b)
    /\ turn' = "WHITE"
    /\ line' \in Lines
    /\ ply' = 0
    /\ UNCHANGED tile_check_api

\* The DOWN key.
ShowPrevMove ==
    /\ ~promotion_pending
    /\ current_index > 0
    /\ current_index > Len(move_history) - 1 - MaxBack
    /\ LET b == show_prev_move(Board) IN
       becomes(b) /\ called("show_prev_move", <<>>, b)
    /\ UNCHANGED <<tile_check_api, turn, line, ply>>

\* The UP key.
ShowNextMove ==
    /\ ~promotion_pending
    /\ current_index < Len(move_history) - 1
    /\ LET b == show_next_move(Board) IN
       becomes(b) /\ called("show_next_move", <<>>, b)
    /\ UNCHANGED <<tile_check_api, turn, line, ply>>

\* The program as given: Tile has no check marker, so no move_piece call gets
\* as far as the history record and the history keys never find a record to
\* show.  A caller that survives the exception goes on using the Board.
Init == InitWith(FALSE)

Next == GetPiece \/ MovePiece \/ Resign \/ ResetBoard

Spec == Init /\ [][Next]_vars

\* The program with the Tile check marker of specification section 4.4.
InitTile == InitWith(TRUE)

NextTile ==
    \/ GetPiece
    \/ MovePiece
    \/ Promote
    \/ Resign
    \/ ResetBoard
    \/ ShowPrevMove
    \/ ShowNextMove

SpecTile == InitTile /\ [][NextTile]_vars

\* Positions with few pieces, as load_fen sets them up from a placement
\* handed to it: the two kings, up to three pieces on (0,3), (3,3) and (6,4),
\* and a White knight on (2,5) or not.
SparsePieces ==
    {NonePiece} \cup
    {NewPiece(t, c, NonePos) :
        t \in {"KNIGHT", "BISHOP", "ROOK", "QUEEN", "PAWN"}, c \in Colors}

SparseGrids ==
    {[s \in Squares |->
         IF s = <<4, 0>> THEN NewPiece("KING", "WHITE", s)
         ELSE IF s = <<4, 7>> THEN NewPiece("KING", "BLACK", s)
         ELSE IF s = <<0, 3>> /\ p # NonePiece THEN [p EXCEPT !.current_pos = s]
         ELSE IF s = <<3, 3>> /\ q # NonePiece THEN [q EXCEPT !.current_pos = s]
         ELSE IF s = <<6, 4>> /\ r # NonePiece THEN [r EXCEPT !.current_pos = s]
         ELSE IF s = <<2, 5>> /\ n THEN NewPiece("KNIGHT", "WHITE", s)
         ELSE NonePiece] :
        p \in SparsePieces, q \in SparsePieces,
        r \in {NonePiece, NewPiece("KNIGHT", "WHITE", NonePos),
               NewPiece("BISHOP", "BLACK", NonePos),
               NewPiece("ROOK", "WHITE", NonePos)},
        n \in BOOLEAN}

\* The state after Board() and load_fen of the placement of a sparse position:
\* the grid and the material are set when load_fen comes to the check markers.
InitDraw ==
    /\ tile_check_api = FALSE
    /\ \E g \in SparseGrids :
           LET b == load_fen(NewBoard, board_state(g))
           IN /\ grid = b.grid
              /\ selected_piece = b.selected_piece
              /\ checking_for_checks = b.checking_for_checks
              /\ en_passant_target = b.en_passant_target
              /\ move_history = b.move_history
              /\ current_index = b.current_index
              /\ material_differential = b.material_differential
              /\ checkmate = b.checkmate
              /\ stalemate = b.stalemate
              /\ mate_color = b.mate_color
              /\ resigned = b.resigned
              /\ check = b.check
              /\ highlighted = b.highlighted
              /\ last_op = [name |-> "load_fen", arg |-> <<>>,
                            raised |-> b.raised, applied |-> TRUE]
    /\ turn \in Colors
    /\ line = 1
    /\ ply = 0

\* The player whose turn it is clicks one of the pieces of that colour.
ClickPiece ==
    /\ ~game_over
    /\ \E s \in Squares :
           /\ grid[s] # NonePiece
           /\ grid[s].color = turn
           /\ LET b == on_mouse_press_piece(Board, grid[s]) IN
              becomes(b) /\ called("get_piece", s, b)
    /\ UNCHANGED <<tile_check_api, turn, line, ply>>

NextDraw == ClickPiece

\* The click handler on positions with few pieces.
SpecDraw == InitDraw /\ [][NextDraw]_vars

\* Positions around a Black king on (0,7) with Black to move: the White king
\* on (1,5) or (2,5), a White queen on (1,6), on (2,6) or nowhere, a Black
\* rook or bishop on (1,7) or nothing, a White rook on (7,7) or not, and a
\* Black pawn on (7,4), alone, blocked by a White pawn on (7,3), or absent.
\* The White king is attacked in none of them.
MateGrids ==
    {g \in
        {[s \in Squares |->
             IF s = <<0, 7>> THEN NewPiece("KING", "BLACK", s)
             ELSE IF s = wk THEN NewPiece("KING", "WHITE", s)
             ELSE IF q # NonePos /\ s = q THEN NewPiece("QUEEN", "WHITE", s)
             ELSE IF s = <<1, 7>> /\ guard # "NONE" THEN NewPiece(guard, "BLACK", s)
             ELSE IF s = <<7, 7>> /\ rook THEN NewPiece("ROOK", "WHITE", s)
             ELSE IF s = <<7, 4>> /\ pawns >= 1 THEN NewPiece("PAWN", "BLACK", s)
             ELSE IF s = <<7, 3>> /\ pawns = 2 THEN NewPiece("PAWN", "WHITE", s)
             ELSE NonePiece] :
            wk \in {<<1, 5>>, <<2, 5>>},
            q \in {NonePos, <<1, 6>>, <<2, 6>>},
            guard \in {"NONE", "ROOK", "BISHOP"},
            rook \in BOOLEAN,
            pawns \in 0..2} :
        \A s \in Squares :
            (g[s] # NonePiece /\ g[s].color = "BLACK") =>
                ~moves_to(g, NonePos, g[s], find_king(g, "WHITE"))}

\* The state after Board() and load_fen of the placement of such a position;
\* the user plays Black and is to move.
InitMate ==
    /\ tile_check_api = FALSE
    /\ \E g \in MateGrids :
           LET b == load_fen(NewBoard, board_state(g))
           IN /\ grid = b.grid
              /\ selected_piece = b.selected_piece
              /\ checking_for_checks = b.checking_for_checks
              /\ en_passant_target = b.en_passant_target
              /\ move_history = b.move_history
              /\ current_index = b.current_index
              /\ material_differential = b.material_differential
              /\ checkmate = b.checkmate
              /\ stalemate = b.stalemate
              /\ mate_color = b.mate_color
              /\ resigned = b.resigned
              /\ check = b.check
              /\ highlighted = b.highlighted
              /\ last_op = [name |-> "load_fen", arg |-> <<>>,
                            raised |-> b.raised, applied |-> TRUE]
    /\ turn = "BLACK"
    /\ line = 4
    /\ ply = 0

NextMate == ClickPiece

\* The click handler on positions where the side to move is short of moves.
SpecMate == InitMate /\ [][NextMate]_vars

\* --------------------------------------------------------- properties

\* Whether the king of the colour stands on a pseudo-legal destination of some
\* piece of the other colour.
attacked(g, ept, color) ==
    LET king_pos == find_king(g, color) IN
    /\ king_pos # NonePos
    /\ \E s \in Squares :
           /\ g[s] # NonePiece
           /\ g[s].color # color
           /\ moves_to(g, ept, g[s], king_pos)

\* The sum of the values of the pieces of the colour on the squares.
RECURSIVE value_sum(_, _, _)
value_sum(g, color, squares) ==
    IF squares = {} THEN 0
    ELSE LET s == CHOOSE x \in squares : TRUE IN
         (IF g[s].color = color THEN piece_value(g[s].piece_type) ELSE 0)
         + value_sum(g, color, squares \ {s})

\* Whether sequence h is the beginning of sequence k.
is_prefix(h, k) == Len(h) <= Len(k) /\ SubSeq(k, 1, Len(h)) = h

navigation == {"show_prev_move", "show_next_move"}

\* C1: in every position reached by applied moves, for every piece on the
\* board, every destination in get_all_legal(piece) is such that after
\* move_piece has applied it (en passant removal and castling rook included)
\* the mover's king is not attacked by any enemy piece.
C1_LegalMoveLeavesKingSafe ==
    is_curr_pos(Board) =>
        \A s \in Squares :
            grid[s] # NonePiece =>
                \A to \in get_all_legal(grid, en_passant_target, grid[s],
                                        checking_for_checks) :
                    LET b == move_piece(get_piece(Board, grid[s]), to[1], to[2])
                    IN ~attacked(b.grid, b.en_passant_target, grid[s].color)

\* C2: move_piece with a target that is not in get_all_legal(selected_piece)
\* is rejected: the occupancy of the grid, move_history, current_index,
\* material_differential and en_passant_target are unchanged and nothing is
\* raised.
C2_IllegalTargetRejected ==
    (/\ is_curr_pos(Board)
     /\ selected_piece # NonePiece
     /\ grid[selected_piece.current_pos] = selected_piece) =>
        \A to \in Squares \ get_all_legal(grid, en_passant_target,
                                          selected_piece, checking_for_checks) :
            LET b == move_piece(Board, to[1], to[2]) IN
            /\ b.raised = "none"
            /\ \A s \in Squares : (b.grid[s] = NonePiece) <=> (grid[s] = NonePiece)
            /\ b.move_history = move_history
            /\ b.current_index = current_index
            /\ b.material_differential = material_differential
            /\ b.en_passant_target = en_passant_target

\* C3: move_piece called while current_index is not the last index of
\* move_history changes nothing, whatever the target and the selection: the
\* grid with every piece's position, move_history, current_index,
\* material_differential, selected_piece and the terminal flags are the same,
\* and nothing is raised.
C3_MovePieceNoOpInHistory ==
    ~is_curr_pos(Board) =>
        \A to \in Squares : move_piece(Board, to[1], to[2]) = Board

\* A move_piece call was made while the Board showed a historical position.
C3_MoveAttemptInHistory ==
    /\ last_op.name = "move_piece"
    /\ ~is_curr_pos(Board)
    /\ selected_piece # NonePiece
    /\ last_op.arg \in get_all_legal(grid, en_passant_target, selected_piece,
                                     checking_for_checks)

\* C4: while the Board shows a historical position, resign, promote and
\* en_passant each leave the grid and the terminal flags (checkmate,
\* stalemate, resigned, mate_color) unchanged.
C4_MutatorsNoOpInHistory ==
    ~is_curr_pos(Board) =>
        /\ \A color \in Colors :
               LET b == resign(Board, color) IN
               /\ b.grid = grid
               /\ b.checkmate = checkmate
               /\ b.stalemate = stalemate
               /\ b.resigned = resigned
               /\ b.mate_color = mate_color
        /\ \A s \in Squares :
               grid[s].piece_type = "PAWN" /\ s[2] \in {0, 7} =>
                   promote(Board, grid[s].color, s[1], s[2]).grid = grid
        /\ \A s \in Squares :
               grid[s].piece_type = "PAWN" =>
                   \A to \in get_moves(grid, en_passant_target, grid[s]) :
                       en_passant(grid, en_passant_target, grid[s], to).grid = grid

\* C5: after construction and after any sequence of moves, navigations,
\* resignations and reset_board calls, move_history is not empty and
\* 0 <= current_index <= len(move_history) - 1.
C5_IndexInHistory ==
    /\ Len(move_history) >= 1
    /\ 0 <= current_index
    /\ current_index <= Len(move_history) - 1

\* C6: between two reset_board calls move_history only grows at its end;
\* a navigation step leaves move_history as it is; a move_piece call that
\* applies a move appends exactly one record and sets current_index to the
\* new last index.
C6_HistoryAppendOnly ==
    [][/\ last_op'.name # "reset_board" => is_prefix(move_history, move_history')
       /\ last_op'.name \in navigation => move_history' = move_history
       /\ (last_op'.name = "move_piece" /\ last_op'.applied) =>
              /\ Len(move_history') = Len(move_history) + 1
              /\ current_index' = Len(move_history') - 1]_vars

\* C7: after every navigation step (show_prev_move, show_next_move), in any
\* order, board_state() equals the FEN stored in move_history[current_index].
C7_NavigationShowsStoredFen ==
    last_op.name \in navigation =>
        /\ 0 <= current_index
        /\ current_index <= Len(move_history) - 1
        /\ board_state(grid) = move_history[current_index + 1].FEN

\* The history was stepped back from a position other than the start and
\* forward again to its last record.
C7_BackAndForthToTail ==
    /\ last_op.name = "show_next_move"
    /\ is_curr_pos(Board)
    /\ Len(move_history) >= 3
    /\ grid # StartGrid

\* C8: for every reachable position, load_fen(board_state()) gives a grid with
\* the same piece kind and colour on every square and the same
\* material_differential.
C8_FenRoundTrip ==
    LET b == load_fen(Board, board_state(grid)) IN
    /\ \A s \in Squares :
           /\ b.grid[s].piece_type = grid[s].piece_type
           /\ b.grid[s].color = grid[s].color
    /\ b.material_differential = material_differential

\* C9: after every completed mutation (move_piece, promote, load_fen by a
\* navigation step, reset_board) material_differential is the sum of the
\* values of the White pieces on the grid minus that of the Black pieces.
C9_MaterialMatchesGrid ==
    (/\ last_op.raised = "none"
     /\ last_op.name \in {"move_piece", "promote", "reset_board"} \cup navigation) =>
        material_differential =
            value_sum(grid, "WHITE", Squares) - value_sum(grid, "BLACK", Squares)

\* C10: across one applied move_piece, material_differential is unchanged when
\* the destination was empty and the move is no en passant capture, grows by
\* the value of a captured Black piece and falls by the value of a captured
\* White piece.
C10_MaterialStepsByCapture ==
    [][(last_op'.name = "move_piece" /\ last_op'.applied) =>
           LET to == last_op'.arg
               captured == grid[to]
               mover == selected_piece
               passant == /\ mover.piece_type = "PAWN"
                          /\ captured = NonePiece
                          /\ to[1] # mover.current_pos[1]
           IN /\ (captured = NonePiece /\ ~passant) =>
                     material_differential' = material_differential
              /\ captured.color = "BLACK" =>
                     material_differential' =
                         material_differential + piece_value(captured.piece_type)
              /\ captured.color = "WHITE" =>
                     material_differential' =
                         material_differential - piece_value(captured.piece_type)]_vars

\* The corner and the square beside the king of the rook that castles with a
\* king going to `to`.
rook_corner(to) == <<IF to[1] = 6 THEN 7 ELSE 0, to[2]>>

rook_beside(to) == <<IF to[1] = 6 THEN 5 ELSE 3, to[2]>>

\* Whether the king on `from` going to `to` is one of the four castling moves.
castles(piece, to) ==
    /\ piece.piece_type = "KING"
    /\ piece.current_pos = <<4, home_rank(piece.color)>>
    /\ to \in {<<6, home_rank(piece.color)>>, <<2, home_rank(piece.color)>>}

\* C11: when move_piece moves a king from file 4 of its home rank two files
\* sideways, the rook of that flank stands beside the king afterwards with its
\* current_pos updated and its corner is empty; on every other king move every
\* rook stays where it was, except a rook the king captures.
C11_CastlingRelocatesRook ==
    is_curr_pos(Board) =>
        \A s \in Squares :
            grid[s].piece_type = "KING" =>
                \A to \in get_moves(grid, en_passant_target, grid[s]) :
                    LET b == move_piece(get_piece(Board, grid[s]), to[1], to[2])
                        rook == grid[rook_corner(to)]
                    IN IF castles(grid[s], to)
                       THEN /\ rook.piece_type = "ROOK"
                            /\ b.grid[rook_beside(to)] =
                                   [rook EXCEPT !.current_pos = rook_beside(to)]
                            /\ b.grid[rook_corner(to)] = NonePiece
                            /\ b.grid[to].piece_type = "KING"
                            /\ \A t \in Squares \ {rook_corner(to), rook_beside(to)} :
                                   grid[t].piece_type = "ROOK" => b.grid[t] = grid[t]
                       ELSE \A t \in Squares \ {to} :
                                /\ grid[t].piece_type = "ROOK" => b.grid[t] = grid[t]
                                /\ b.grid[t].piece_type = "ROOK" => b.grid[t] = grid[t]

\* move_piece has just castled a king to the queen's side.
C11_CastledLong ==
    /\ last_op.name = "move_piece"
    /\ last_op.arg[1] = 2
    /\ grid[last_op.arg].piece_type = "KING"
    /\ grid[rook_beside(last_op.arg)].piece_type = "ROOK"
    /\ grid[rook_beside(last_op.arg)].current_pos = rook_beside(last_op.arg)
    /\ grid[rook_corner(last_op.arg)] = NonePiece
    /\ grid[<<4, last_op.arg[2]>>] = NonePiece

\* The square a castling king passes over on its way to `to`.
passed_over(to) == <<IF to[1] = 6 THEN 5 ELSE 3, to[2]>>

\* C12: get_all_legal(king) holds no castling destination while the king is
\* in check, nor while the square the king passes over is attacked by an
\* enemy piece.
C12_NoCastlingOutOfOrThroughCheck ==
    \A s \in Squares :
        grid[s].piece_type = "KING" =>
            \A to \in get_all_legal(grid, en_passant_target, grid[s],
                                    checking_for_checks) :
                castles(grid[s], to) =>
                    /\ ~attacked(grid, en_passant_target, grid[s].color)
                    /\ ~attacked(simulated(grid, grid[s], passed_over(to)),
                                 en_passant_target, grid[s].color)

\* The square one rank behind `to` as the pawn of the colour sees it.
behind(color, to) == <<to[1], IF color = "WHITE" THEN to[2] - 1 ELSE to[2] + 1>>

\* C13: for every pawn and every target among its pseudo-legal destinations
\* and en_passant_target, en_passant(pawn, target) puts the pawn on the target
\* and empties its origin; when the target is en_passant_target it also empties the square one
\* rank behind the target (rank - 1 for a White pawn, rank + 1 for a Black
\* one); it changes no other square.
C13_EnPassantSquares ==
    \A s \in Squares :
        grid[s].piece_type = "PAWN" =>
            \A to \in (get_moves(grid, en_passant_target, grid[s])
                        \cup {t \in Squares : t = en_passant_target}) \ {s} :
                LET r == en_passant(grid, en_passant_target, grid[s], to)
                    taken == IF to = en_passant_target
                             THEN {behind(grid[s].color, to)} ELSE {}
                IN /\ r.grid[to] = [grid[s] EXCEPT !.current_pos = to,
                                                   !.has_moved = TRUE]
                   /\ r.grid[s] = NonePiece
                   /\ \A t \in taken : r.grid[t] = NonePiece
                   /\ \A t \in Squares \ ({s, to} \cup taken) : r.grid[t] = grid[t]

\* move_piece has just applied the en passant capture of a Black pawn: the
\* White pawn stands on the square the Black pawn passed over, and the square
\* behind it and the one it came from are empty.
C13_CapturedEnPassant ==
    /\ last_op.name = "move_piece"
    /\ line = 5
    /\ ply = 5
    /\ grid[<<3, 5>>].piece_type = "PAWN"
    /\ grid[<<3, 5>>].color = "WHITE"
    /\ grid[<<3, 4>>] = NonePiece
    /\ grid[<<4, 4>>] = NonePiece

\* Whether the step is a move_piece call that applied a move.
applied_move == last_op'.name = "move_piece" /\ last_op'.applied

\* Whether the move of the selected piece to `to` is a pawn's double step.
double_step(to) ==
    /\ selected_piece.piece_type = "PAWN"
    /\ abs(to[2] - selected_piece.current_pos[2]) = 2

asked_about ==
    {s \in Squares :
        /\ grid[s] # NonePiece
        /\ \/ grid[s] = selected_piece
           \/ grid[s].piece_type = "KING" /\ grid[s].color = turn}

\* C15: check_if_move_into_check(piece, new_pos) leaves the occupant of every
\* tile and piece.current_pos as they were, whatever it returns, both as a
\* top-level call and as a call nested inside check_for_checks.
C15_MoveIntoCheckIsPure ==
    \A s \in asked_about :
        \A to \in get_moves(grid, en_passant_target, grid[s]) :
            LET piece == grid[s]
                sim == simulated(grid, piece, to)
                after == check_if_move_into_check_leaves(
                             grid, en_passant_target, piece, to)
            IN /\ after = grid
               /\ after[s].current_pos = piece.current_pos
               /\ \A e \in Squares :
                      (sim[e] # NonePiece /\ sim[e].color # piece.color) =>
                          \A m \in get_moves(sim, en_passant_target, sim[e]) :
                              nested_leaves(sim, sim[e], m) = sim

\* A piece asked about has a pseudo-legal capture that
\* check_if_move_into_check answers true for (after Qxf7 the Black king may not
\* take the queen), another move is answered false, and after either call the
\* grid is the grid before it.
C15_RefusedCaptureUndone ==
    /\ last_op.name = "move_piece"
    /\ \E s \in asked_about :
           \E to \in get_moves(grid, en_passant_target, grid[s]) :
               /\ grid[to] # NonePiece
               /\ check_if_move_into_check(grid, en_passant_target, grid[s],
                                           to, FALSE)
               /\ check_if_move_into_check_leaves(
                      grid, en_passant_target, grid[s], to) = grid
    /\ \E s \in asked_about :
           \E to \in get_moves(grid, en_passant_target, grid[s]) :
               /\ ~check_if_move_into_check(grid, en_passant_target, grid[s],
                                            to, FALSE)
               /\ check_if_move_into_check_leaves(
                      grid, en_passant_target, grid[s], to) = grid

\* C16: a top-level check_for_checks(color) returns true exactly when the
\* square of the king of that colour is a pseudo-legal destination
\* (piece.get_moves, unfiltered) of some piece of the other colour.
C16_CheckIsPseudoLegalAttack ==
    \A color \in Colors :
        check_for_checks(grid, en_passant_target, color, FALSE)
            <=> attacked(grid, en_passant_target, color)

\* A move has just been applied and check_for_checks answers true for the
\* side to move and false for the side that moved.
C16_MoveGaveCheck ==
    /\ last_op.name = "move_piece"
    /\ last_op.applied
    /\ check_for_checks(grid, en_passant_target, turn, FALSE)
    /\ ~check_for_checks(grid, en_passant_target, opposite(turn), FALSE)

\* C17: every check_for_checks call terminates; an invocation made while
\* another is in flight returns false at once without generating moves; the
\* nesting never goes deeper than one level.
C17_CheckForChecksNestsOnce ==
    \A color \in Colors :
        LET calls == check_for_checks_calls(grid, en_passant_target, color,
                                            checking_for_checks, 0)
        IN /\ IsFiniteSet(calls)
           /\ \A c \in calls :
                  /\ c.depth <= 1
                  /\ c.depth = 1 => ~c.generated /\ ~c.result
           /\ check_for_checks_calls(grid, en_passant_target, color, TRUE, 1)
                  = {[depth |-> 1, generated |-> FALSE, result |-> FALSE]}
           /\ ~check_for_checks(grid, en_passant_target, color, TRUE)

\* A move has been applied and the check_for_checks call for the king it
\* attacks both searched at the top level and was re-entered one level down.
C17_NestedCallReturnedAtOnce ==
    /\ last_op.name = "move_piece"
    /\ last_op.applied
    /\ LET calls == check_for_checks_calls(grid, en_passant_target, turn,
                                           checking_for_checks, 0)
       IN /\ [depth |-> 0, generated |-> TRUE, result |-> TRUE] \in calls
          /\ [depth |-> 1, generated |-> FALSE, result |-> FALSE] \in calls

\* The number of kings of the colour on the grid.
kings(g, color) ==
    Cardinality({s \in Squares :
                    g[s].piece_type = "KING" /\ g[s].color = color})

\* C18: after every move applied to a target that get_all_legal offers the
\* grid holds exactly one White king and exactly one Black king: no applied
\* move captures a king.
C18_OneKingOfEachColour ==
    (last_op.name = "move_piece" /\ last_op.applied) =>
        \A color \in Colors : kings(grid, color) = 1

\* C19: after every completed operation (move_piece with its castling rook
\* relocation and en passant capture, promote, load_fen, reset_board) every
\* piece on the grid has the square it stands on as its current_pos.
C19_PiecesKnowTheirSquare ==
    \A s \in Squares :
        grid[s] # NonePiece => grid[s].current_pos = s

\* promote has put a queen on the last rank of the a-file and the queen's
\* current_pos is that square.
C19_PromotedQueenOnItsSquare ==
    /\ last_op.name = "promote"
    /\ grid[<<0, 7>>].piece_type = "QUEEN"
    /\ grid[<<0, 7>>].color = "WHITE"
    /\ grid[<<0, 7>>].current_pos = <<0, 7>>

\* C20: reset_board, called in any state, leaves the Board as a new Board is:
\* the starting layout, a history of the one seed record with the starting
\* FEN, current_index 0, no selected piece, no en passant target, material 0,
\* checkmate, stalemate and resigned false, mate_color none.
C20_ResetGivesFreshBoard ==
    last_op.name = "reset_board" =>
        /\ last_op.raised = "none"
        /\ Board = NewBoard

\* C21: once checkmate, stalemate or resigned is set, every step that is not
\* reset_board leaves the three flags as they are and appends no record to
\* move_history; reset_board is the only operation that clears them.
C21_TerminalStatesAbsorbing ==
    [][(game_over /\ last_op'.name # "reset_board") =>
           /\ checkmate' = checkmate
           /\ stalemate' = stalemate
           /\ resigned' = resigned
           /\ move_history' = move_history]_vars

\* The game has ended by a resignation made with a piece selected, moves were
\* played before it, and the history key has since taken the Board back one
\* position: the flags are still set.
C21_BrowsingAfterResignation ==
    /\ resigned
    /\ checkmate
    /\ selected_piece # NonePiece
    /\ Len(move_history) > 2
    /\ current_index = Len(move_history) - 2
    /\ last_op.name = "show_prev_move"

\* C22: resign(color) sets resigned and makes mate_color the opposite of
\* color; it changes neither the grid, move_history, current_index nor
\* material_differential, and its result does not depend on the moves the
\* position allows.
C22_ResignSetsWinnerOnly ==
    \A color \in Colors :
        LET b == resign(Board, color)
        IN /\ b.resigned
           /\ b.mate_color = opposite(color)
           /\ b.raised = "none"
           /\ b.grid = grid
           /\ b.move_history = move_history
           /\ b.current_index = current_index
           /\ b.material_differential = material_differential
           /\ b.selected_piece = selected_piece
           /\ b.en_passant_target = en_passant_target

\* The user has resigned in the middle of a game: resigned is set, the winner
\* is the other side and the pieces stand where the last move left them.
C22_ResignedMidGame ==
    /\ last_op.name = "resign"
    /\ ply > 2
    /\ resigned
    /\ mate_color = opposite(user_color)
    /\ grid # StartGrid

\* C23: promote(color, file, rank) puts a new queen of the colour, positioned
\* at (file, rank), on that tile and changes the occupant of no other tile;
\* once a pawn's move onto its last rank has returned, the next step is the
\* promotion, after which the square holds a queen of the pawn's colour.
C23_PromotionGivesQueen ==
    /\ [](\A color \in Colors : \A sq \in Squares :
              LET b == promote(Board, color, sq[1], sq[2])
              IN /\ b.grid[sq] = [piece_type |-> "QUEEN", color |-> color,
                                  current_pos |-> sq, has_moved |-> FALSE]
                 /\ \A t \in Squares \ {sq} : b.grid[t] = grid[t])
    /\ [][promotion_pending =>
              LET sq == last_op.arg
              IN /\ last_op'.name = "promote"
                 /\ grid'[sq].piece_type = "QUEEN"
                 /\ grid'[sq].color = grid[sq].color
                 /\ grid'[sq].current_pos = sq
                 /\ \A t \in Squares \ {sq} : grid'[t] = grid[t]]_vars

\* The White pawn of the a-file has captured its way to (0,7) and the view
\* has promoted it: a White queen stands there and no pawn is on a last rank.
C23_PawnBecameQueen ==
    /\ last_op.name = "promote"
    /\ last_op.arg = <<0, 7>>
    /\ grid[<<0, 7>>].piece_type = "QUEEN"
    /\ grid[<<0, 7>>].color = "WHITE"
    /\ \A s \in Squares : grid[s].piece_type = "PAWN" => s[2] \in 1..6

\* The pieces on the grid of the kinds.
pieces_of(g, kinds) == {s \in Squares : g[s].piece_type \in kinds}

C25_RecordDescribesMove ==
    [][(last_op'.name = "move_piece" /\ last_op'.applied
            /\ last_op'.raised = "none") =>
           LET to == last_op'.arg
               mover == selected_piece
               from == mover.current_pos
               removed ==
                   IF grid[to] # NonePiece THEN grid[to]
                   ELSE IF mover.piece_type = "PAWN" /\ to[1] # from[1]
                        THEN grid[<<to[1], from[2]>>]
                        ELSE NonePiece
               rec == move_history'[Len(move_history')]
           IN /\ Len(move_history') = Len(move_history) + 1
              /\ rec.Piece.piece_type = mover.piece_type
              /\ rec.Piece.color = mover.color
              /\ rec.From = from
              /\ rec.To = to
              /\ rec.FEN = board_state(grid')
              /\ rec.Captured = removed]_vars

\* C26: after move_piece has applied a move the check marker is set on the
\* tile of the opposing king exactly when that king is in check in the new
\* position, and every check marker that was set before the move on another
\* tile is cleared.
C26_CheckMarkerFollowsCheck ==
    [][(last_op'.name = "move_piece" /\ last_op'.applied) =>
           LET enemy_color == opposite(selected_piece.color)
               king_pos == find_king(grid', enemy_color)
           IN /\ king_pos \in check' <=>
                     attacked(grid', en_passant_target', enemy_color)
              /\ \A t \in check \ {king_pos} : t \notin check']_vars

\* The elements of the list.
elements(list) == {list[i] : i \in DOMAIN list}

\* Whether get_all_moves(color) is the union of get_all_legal over the pieces
\* of the colour with each square once, and get_all_enemy_moves of the other
\* colour holds the same squares, for calls entered with the flag.
moves_are_union(color, flag) ==
    LET all_moves == get_all_moves_list(grid, en_passant_target, color, flag)
        enemy_moves == get_all_enemy_moves_list(grid, en_passant_target,
                                                opposite(color), flag)
        union == {move \in Squares :
                     \E s \in Squares :
                         /\ grid[s] # NonePiece
                         /\ grid[s].color = color
                         /\ move \in get_all_legal(grid, en_passant_target,
                                                   grid[s], flag)}
    IN /\ elements(all_moves) = union
       /\ Cardinality(elements(all_moves)) = Len(all_moves)
       /\ elements(enemy_moves) = elements(all_moves)
       /\ Cardinality(elements(enemy_moves)) = Len(enemy_moves)
       /\ get_all_moves(grid, en_passant_target, color, flag) = union
       /\ get_all_enemy_moves(grid, en_passant_target, opposite(color), flag)
              = union

\* C27: get_all_moves(color) returns exactly the squares that are in
\* get_all_legal(p) for some piece p of the colour, each once, and
\* get_all_enemy_moves(color) returns the squares of get_all_moves of the
\* opposite colour: for both colours as the nested calls of check_for_checks
\* see them, and for the side to move after every applied move at top level.
C27_AllMovesIsUnionOfLegal ==
    /\ \A color \in Colors : moves_are_union(color, TRUE)
    /\ (last_op.name = "move_piece" /\ last_op.applied) =>
           moves_are_union(turn, FALSE)

\* After 4.Qxf7 the side to move has no move at all at top level, while the
\* unfiltered lists of the nested calls hold moves that several pieces share.
C27_NoMoveForMatedSide ==
    /\ last_op.name = "move_piece"
    /\ last_op.applied
    /\ get_all_moves_list(grid, en_passant_target, turn, FALSE) = <<>>
    /\ Len(get_all_moves_list(grid, en_passant_target, turn, TRUE)) > 4
    /\ \E s, t \in Squares :
           /\ s # t
           /\ grid[s].color = turn
           /\ grid[t].color = turn
           /\ get_moves(grid, en_passant_target, grid[s])
                  \cap get_moves(grid, en_passant_target, grid[t]) # {}

\* C28: when no king of the colour is on the grid find_king returns none,
\* check_for_checks(color) returns false, highlight_king_in_check(color) marks
\* no tile, and none of them raises.
C28_NoKingNoCheck ==
    \A color \in Colors :
        kings(grid, color) = 0 =>
            /\ find_king(grid, color) = NonePos
            /\ ~check_for_checks(grid, en_passant_target, color, FALSE)
            /\ check_for_checks_calls(grid, en_passant_target, color, FALSE, 0)
                   = {[depth |-> 0, generated |-> FALSE, result |-> FALSE]}
            /\ highlight_king_in_check(Board, color).check = check
            /\ highlight_king_in_check(Board, color).raised = "none"

\* The rook has taken the White king: no White king is on the grid while
\* Black pieces still attack squares of it.
C28_KingTaken ==
    /\ last_op.name = "move_piece"
    /\ last_op.applied
    /\ kings(grid, "WHITE") = 0
    /\ kings(grid, "BLACK") = 1
    /\ grid[last_op.arg].piece_type = "ROOK"

\* C29: load_fen reads the piece placement only: from the full FEN that
\* board_state(active_color) produces it builds, without an error, the grid it
\* builds from the placement board_state() produces.
C29_LoadFenIgnoresOtherFields ==
    \A active_color \in Colors :
        LET full == fen_grid(board_state_active(grid, en_passant_target,
                                                active_color))
            placement == fen_grid(board_state(grid))
        IN /\ full.raised = "none"
           /\ full.grid = placement.grid

\* C30: every Board operation runs to completion or leaves the state as it
\* was, and raises nothing: no call has stopped with an exception, a
\* move_piece call made with no piece selected raises nothing and changes
\* nothing, and no move_piece call has changed the grid without appending its
\* record.
C30_OperationsCompleteOrNoOp ==
    /\ last_op.raised = "none"
    /\ \A to \in Squares :
           LET b0 == get_piece(Board, NonePiece)
               b == move_piece(b0, to[1], to[2])
           IN b = b0
    /\ (last_op.name = "move_piece" /\ last_op.applied) =>
           /\ move_history[Len(move_history)].To = last_op.arg
           /\ move_history[Len(move_history)].FEN = board_state(grid)

\* Whether Board b names the end of the game that the position of the side
\* to move calls for: checkmate won by the other side when its king is
\* attacked, stalemate when it is not.
classified(b) ==
    IF attacked(grid, en_passant_target, turn)
    THEN b.checkmate /\ b.mate_color = opposite(turn) /\ ~b.stalemate
    ELSE b.stalemate /\ ~b.checkmate

\* C31: when the side to move has no legal move, the click on its king and
\* make_bot_move for it both classify the end of the game correctly:
\* checkmate with mate_color the other side if some enemy piece attacks the
\* king, pinned or not, and stalemate otherwise.
C31_TerminalStateClassified ==
    LET king_pos == find_king(grid, turn) IN
    (/\ ~game_over
     /\ is_curr_pos(Board)
     /\ king_pos # NonePos
     /\ get_all_moves(grid, en_passant_target, turn, FALSE) = {}) =>
        /\ classified(on_mouse_press_piece(Board, grid[king_pos]))
        /\ classified(make_bot_move(Board, turn))

\* C32: a move the user attempts while the Board shows a historical position
\* (a click or a drop on a highlighted tile with current_index below the last
\* record) leaves the occupant of every tile as it was, the enemy piece on
\* the target tile included.
C32_HistoricalAttemptKeepsTiles ==
    [][(/\ last_op'.name = "move_piece"
        /\ turn = user_color
        /\ ~is_curr_pos(Board)) =>
           \A s \in Squares : grid'[s] = grid[s]]_vars

\* C33: when a move of the user or of the opponent has been fully processed
\* (the promotion that follows move_piece included) and the Board shows the
\* current position, board_state() of the grid equals the FEN of the last
\* record of move_history.
C33_LiveGridMatchesLastRecord ==
    (/\ \/ last_op.name = "move_piece" /\ last_op.applied
        \/ last_op.name = "promote"
     /\ last_op.raised = "none"
     /\ ~promotion_pending
     /\ is_curr_pos(Board)) =>
        board_state(grid) = move_history[Len(move_history)].FEN

\* C34: going from the last record of the history back one position and
\* forward again (show_prev_move, then show_next_move) keeps has_moved of the
\* kings and rooks: each of them that had has_moved before the navigation
\* stands on its tile with has_moved afterwards.
C34_NavigationKeepsHasMoved ==
    (is_curr_pos(Board) /\ current_index > 0) =>
        LET b == show_next_move(show_prev_move(Board)) IN
        /\ is_curr_pos(b)
        /\ \A s \in Squares :
               (grid[s].piece_type \in {"KING", "ROOK"} /\ grid[s].has_moved) =>
                   /\ b.grid[s].piece_type = grid[s].piece_type
                   /\ b.grid[s].has_moved

\* C35: every move that the view's click and drag handlers apply to the
\* Board has a target in get_all_legal(selected_piece) on the grid the
\* handler finds, and selected_piece is then the piece on the tile at its
\* current_pos, not one left over from before a load_fen or a reset_board.
C35_AppliedMoveIsOfferedNow ==
    [][(/\ last_op'.name = "move_piece"
        /\ last_op'.applied
        /\ turn = user_color) =>
           /\ selected_piece # NonePiece
           /\ grid[selected_piece.current_pos] = selected_piece
           /\ last_op'.arg \in get_all_legal(grid, en_passant_target,
                                             selected_piece,
                                             checking_for_checks)]_vars

\* The user has moved the king after the history keys had reloaded the
\* grid: a rook that a record shows as moved stands on the record's target as
\* a new piece, with has_moved false.
C35_MovedAfterReload ==
    /\ last_op.name = "move_piece"
    /\ last_op.applied
    /\ last_op.raised = "none"
    /\ turn # user_color
    /\ grid[last_op.arg].piece_type = "KING"
    /\ \E k \in 1..Len(move_history) :
           LET r == move_history[k] IN
           /\ r.Piece.piece_type = "ROOK"
           /\ r.Piece.has_moved
           /\ grid[r.To].piece_type = "ROOK"
           /\ ~grid[r.To].has_moved

\* C36: when a move has been fully processed and the side to move, user or
\* opponent, has no legal move, checkmate or stalemate is set already, before
\* any further click and whichever piece the user clicks next.
C36_NoMoveMeansTerminal ==
    (/\ \/ last_op.name = "move_piece" /\ last_op.applied
        \/ last_op.name = "promote"
     /\ last_op.raised = "none"
     /\ ~promotion_pending
     /\ is_curr_pos(Board)
     /\ get_all_moves(grid, en_passant_target, turn, FALSE) = {}) =>
        checkmate \/ stalemate

\* C37: checking_for_checks is false in every state between operations: a
\* check_for_checks call entered with the flag false leaves it false on every
\* path (king found, no king, an exception), and the calls nested in it,
\* which return at once, leave the flag set: none of them clears it while the
\* outer call is running.
C37_FlagFalseBetweenOperations ==
    /\ ~checking_for_checks
    /\ \A path \in {"340", "343", "raise"} :
           ~check_for_checks_flag(path, FALSE)
    /\ \A color \in Colors :
           /\ ~check_for_checks_flag(return_path(find_king(grid, color)),
                                     checking_for_checks)
           /\ nested_call_flags(grid, en_passant_target, Colors \ {color})
                  \subseteq {TRUE}

\* move_piece has applied the capture of the White king and has called
\* check_for_checks for a colour that has no king and for one that has.
C37_CheckedWithoutKing ==
    /\ last_op.name = "move_piece"
    /\ last_op.applied
    /\ last_op.raised = "none"
    /\ find_king(grid, "WHITE") = NonePos
    /\ find_king(grid, "BLACK") # NonePos
    /\ ~checking_for_checks

\* The fields of the Board that load_fen is to leave alone.
kept_by_load_fen(b) ==
    <<b.move_history, b.current_index, b.selected_piece, b.en_passant_target,
      b.checkmate, b.stalemate, b.resigned, b.mate_color,
      b.checking_for_checks>>

\* C38: load_fen changes only the grid, material_differential and the tiles'
\* markers: for every FEN that board_state() has produced (the records of
\* move_history, the grid shown, with or without the fields after the
\* placement) move_history, current_index, selected_piece, en_passant_target,
\* checkmate, stalemate, resigned and mate_color are after the call what they
\* were before it; the history keys change of them current_index alone.
C38_LoadFenKeepsTheRest ==
    /\ [](\A fen \in {move_history[k].FEN : k \in 1..Len(move_history)}
                       \cup {board_state(grid),
                             board_state_active(grid, en_passant_target, turn)} :
              kept_by_load_fen(load_fen(Board, fen)) = kept_by_load_fen(Board))
    /\ [][last_op'.name \in navigation =>
              /\ move_history' = move_history
              /\ selected_piece' = selected_piece
              /\ en_passant_target' = en_passant_target
              /\ checkmate' = checkmate
              /\ stalemate' = stalemate
              /\ resigned' = resigned
              /\ mate_color' = mate_color]_vars

\* The history key has loaded another position while a piece was selected,
\* an en passant target stood and the game had been resigned.
C38_LoadedWithSelection ==
    /\ last_op.name = "show_prev_move"
    /\ last_op.raised = "none"
    /\ selected_piece # NonePiece
    /\ grid[selected_piece.current_pos] # selected_piece
    /\ en_passant_target # NonePos
    /\ resigned
    /\ mate_color # "NONE"

\* C39: in every state the view's handlers reach, checkmate and stalemate are
\* not both true, resigned implies checkmate, and mate_color names a colour
\* exactly when checkmate is true.
C39_TerminalFlagsConsistent ==
    /\ ~(checkmate /\ stalemate)
    /\ resigned => checkmate
    /\ (mate_color # "NONE") <=> checkmate

\* The click on the user's king has found the user mated, with no resignation:
\* checkmate is set, stalemate is not, and mate_color names the other side.
C39_MateFoundByClick ==
    /\ last_op.name = "get_piece"
    /\ checkmate
    /\ ~resigned
    /\ ~stalemate
    /\ mate_color = opposite(user_color)
    /\ ply > 2

\* The pawns of a grid carry has_moved exactly when they stand off their home
\* rank: rank index 1 for White, 6 for Black.
pawns_marked_off_home(g) ==
    \A s \in Squares :
        g[s].piece_type = "PAWN" =>
            (g[s].has_moved <=> s[2] # (IF g[s].color = "WHITE" THEN 1 ELSE 6))

\* C40: load_fen marks has_moved on exactly the pawns that are not on their
\* home rank (White off rank index 1, Black off rank index 6) and leaves it
\* false on the pawns on their home rank: for the FEN of every record, for the
\* placement of the grid shown, and on the grid a history key has loaded.
C40_LoadFenMarksPawnsOffHome ==
    /\ \A fen \in {move_history[k].FEN : k \in 1..Len(move_history)}
                      \cup {board_state(grid)} :
           pawns_marked_off_home(load_fen(Board, fen).grid)
    /\ (last_op.name \in navigation /\ last_op.raised = "none")
           => pawns_marked_off_home(grid)

\* The DOWN key has loaded a position with pawns of both colours on and off
\* their home ranks, marked as moved exactly off them.
C40_LoadedPawnsOnAndOffHome ==
    /\ last_op.name = "show_prev_move"
    /\ last_op.raised = "none"
    /\ \A c \in Colors :
           /\ \E s \in Squares : /\ grid[s].piece_type = "PAWN" /\ grid[s].color = c
                                 /\ s[2] = (IF c = "WHITE" THEN 1 ELSE 6)
                                 /\ ~grid[s].has_moved
           /\ \E s \in Squares : /\ grid[s].piece_type = "PAWN" /\ grid[s].color = c
                                 /\ s[2] # (IF c = "WHITE" THEN 1 ELSE 6)
                                 /\ grid[s].has_moved

====
